---- MODULE Spec2Model ----
(***************************************************************************)
(* Model of the document-translation pipeline:                             *)
(*   - DeepLTranslator.translate_slide_with_retry and                      *)
(*     count_untranslated_texts        (src/ppt-translation-pipeline.py)   *)
(*   - DeepLTranslator.translate_batch and its fallbacks                   *)
(*                                     (src/ppt-translation-pipeline.py)   *)
(*   - PPTTranslator.translate_batch   (src/translator.py)                 *)
(*   - PPTXReassembler.reassemble / update_slide (src/reassembler.py)      *)
(* Texts are sequences of one-character strings, so that str.strip() is    *)
(* computed and not assumed.                                               *)
(***************************************************************************)
EXTENDS Integers, Sequences, FiniteSets, TLC

VARIABLES
    \* ---- translate_slide_with_retry ----
    r_slide,        \* the source slide passed in
    r_max,          \* max_retries
    r_attempt,      \* the loop variable `attempt`
    r_best,         \* best_translation: <<>> is None, else <<[slide, by]>>
    r_best_count,   \* best_untranslated_count: <<>> is float('inf'), else <<n>>
    r_pc,           \* "loop", "done" (returned) or "propagated" (exception left the call)
    r_result,       \* the returned value: <<>> before the return, else <<[slide, by]>>
    r_calls,        \* number of translate_slide invocations so far
    r_sleeps,       \* number of time.sleep(2) calls so far
    r_hist,         \* per attempt made: its untranslated count, or -1 when it raised
    \* ---- count_untranslated_texts as a pure function ----
    c_orig,         \* original_slide
    c_trans,        \* translated_slide: <<>> before the call, else <<slide>>
    c_count,        \* the returned count, -1 before the call
    \* ---- translate_batch and its fallbacks (DeepLTranslator, PPTTranslator) ----
    b_translator,   \* "deepl" (ppt-translation-pipeline.py) or "gpt" (translator.py)
    b_texts,        \* the argument `texts`
    b_pc,           \* "start", "post", "resend", "small1", "small2", "single", "done"
    b_attempt,      \* `attempt` of the batch request loop
    b_gloss,        \* the payload carries glossary_id
    b_gloss_failed, \* self._glossary_failed is set
    b_list,         \* the list being translated item by item
    b_acc,          \* the items translated so far (`translated`)
    b_sattempt,     \* `attempt` of translate_single
    b_ret,          \* who runs the item loop: "obo", "small1" or "small2"
    b_first,        \* translated_first of the split batch
    b_out,          \* the returned list
    b_total,        \* stats["total_texts_translated"]
    b_api,          \* stats["api_calls"]
    b_stats0,       \* the two counters as the calls before this one left them
    b_sent,         \* every text sent to the backend so far
    b_answers,      \* per input position: the texts the backend answered for it
    b_waits,        \* the waits of the batch request loop, in seconds
    b_path,         \* what happened on the way
    \* ---- PPTXReassembler.reassemble (reassembler.py, ppt-translation-pipeline.py) ----
    a_variant,      \* which reassembler runs, one of Variants
    a_rtl,          \* self.is_rtl
    a_live,         \* self.presentation.slides
    a_live0,        \* the presentation as it was loaded
    a_json,         \* self.translated_data["slides"]
    a_pc,           \* "start", "loop", "done" (returned) or "raised"
    a_idx,          \* slide_idx of the next turn of the loop
    a_num,          \* num_slides
    a_warned,       \* verify_slide_count printed its warning
    a_stats,        \* self.stats
    a_order,        \* the slide indices update_slide was called with, in order
    a_log,          \* per update_slide call: what became of each element
    a_returned,     \* the returned stats: <<>> before the return
    \* ---- PPTXReassembler.update_text_runs on its own ----
    u_paragraph,    \* the live paragraph passed in
    u_runs,         \* translated_runs
    u_rtl,          \* self.is_rtl
    u_pc,           \* "call" or "done"
    u_result,       \* the paragraph after the call
    u_stats0,       \* self.stats before the call
    u_stats,        \* self.stats
    \* ---- extract, translate with the identity, reassemble: one slide ----
    t_variant,      \* which reassembler runs, one of Variants
    t_rtl,          \* is_rtl of the translated JSON
    t_live0,        \* the slide as loaded
    t_live,         \* the live slide
    t_json,         \* the slide's JSON: <<>> before the extraction
    t_pc,           \* "extract", "translate", "reassemble" or "done"
    t_stats,        \* self.stats of the reassembler
    \* ---- one chart: translate_chart, then update_chart ----
    h_variant,      \* which reassembler runs, one of Variants
    h_rtl,          \* self.is_rtl
    h_src,          \* chart_data passed to translate_chart
    h_oc,           \* what the backend does with a text, one of Outcomes
    h_out,          \* what translate_chart did: <<>> before the call
    h_json,         \* translated chart_data passed to update_chart
    h_live0,        \* the live chart shape as loaded
    h_live,         \* the live chart shape
    h_pc,           \* "translate", "update" or "done"
    \* ---- PPTXExtractor.extract_all ----
    e_slides,       \* self.presentation.slides
    e_bad,          \* the shape_ids for which extract_shape raises
    e_idx,          \* the slides extract_slide was called for so far
    e_data,         \* self.data["slides"]
    e_pc,           \* "loop", "done" (returned) or "raised" (exception left the call)
    \* ---- DeepLTranslator.translate_presentation ----
    p_data,         \* data["slides"]
    p_idx,          \* the slides handled so far
    p_out,          \* translated_data["slides"]
    p_failed,       \* failed_slides: <<idx, untranslated_count>> pairs
    p_pc,           \* "loop", "slide" (inside translate_slide_with_retry) or "done"
    \* ---- extract_smartart_xml: level inference ----
    g_nodes0,       \* smartart_element["nodes"] after the connection list was read
    g_nodes,        \* smartart_element["nodes"]
    g_pc,           \* "infer" or "done"
    \* ---- the Streamlit app (app.py) ----
    s_session,      \* st.session_state
    s_uploaded,     \* the file uploader: "none", "ok" or "big" (over 20MB)
    s_plan,         \* what each stage of the started run does: "ok" or "raises"
    s_shown,        \* the st.success / st.error messages of the last finished script run
    s_buttons,      \* the buttons the last finished script run rendered
    s_runs,         \* Start Translation clicks so far
    s_pc            \* "idle" (waiting for the user) or "rerun" (the script is run again)

retryVars == <<r_slide, r_max, r_attempt, r_best, r_best_count, r_pc, r_result,
               r_calls, r_sleeps, r_hist>>
countVars == <<c_orig, c_trans, c_count>>
batchVars == <<b_translator, b_texts, b_pc, b_attempt, b_gloss, b_gloss_failed,
               b_list, b_acc, b_sattempt, b_ret, b_first, b_out, b_total, b_api,
               b_stats0, b_sent, b_answers, b_waits, b_path>>

reasmVars == <<a_variant, a_rtl, a_live, a_live0, a_json, a_pc, a_idx, a_num, a_warned,
               a_stats, a_order, a_log, a_returned>>

runsVars == <<u_paragraph, u_runs, u_rtl, u_pc, u_result, u_stats0, u_stats>>
tripVars == <<t_variant, t_rtl, t_live0, t_live, t_json, t_pc, t_stats>>
chartVars == <<h_variant, h_rtl, h_src, h_oc, h_out, h_json, h_live0, h_live, h_pc>>
extractVars == <<e_slides, e_bad, e_idx, e_data, e_pc>>
presVars == <<p_data, p_idx, p_out, p_failed, p_pc>>
levelVars == <<g_nodes0, g_nodes, g_pc>>
appVars == <<s_session, s_uploaded, s_plan, s_shown, s_buttons, s_runs, s_pc>>

----------------------------------------------------------------------------
(* Bounds of the model *)

\* most runs on one slide
MaxRuns == 3
\* largest max_retries passed to translate_slide_with_retry
MaxRetriesArg == 3
\* longest list passed to translate_batch
MaxTexts == 6
\* most slides in the live presentation and in the translated tree
MaxSlides == 2
\* presentation.slide_width, in the unit of left and width
SlideWidth == 1000
\* most runs of the live paragraph passed to update_text_runs
MaxLiveRuns == 2
\* most translated runs passed to update_text_runs
MaxJsonRuns == 3
\* categories of a chart
MaxCategories == 2

----------------------------------------------------------------------------
(* Texts *)

\* the whitespace characters str.strip() removes (one representative)
Whitespace == {" "}

\* run texts of the source slides: empty, whitespace-only, ordinary
SrcTexts == {<<>>, <<" ">>, <<"a">>}

RECURSIVE LStrip(_)
LStrip(t) == IF t = <<>> THEN t
             ELSE IF Head(t) \in Whitespace THEN LStrip(Tail(t)) ELSE t

RECURSIVE RStrip(_)
RStrip(t) == IF t = <<>> THEN t
             ELSE IF t[Len(t)] \in Whitespace THEN RStrip(SubSeq(t, 1, Len(t) - 1)) ELSE t

\* str.strip()
Strip(t) == RStrip(LStrip(t))

\* `text and text.strip()` is falsy: empty or whitespace-only
IsBlank(t) == Strip(t) = <<>>

\* what the backend answers for a text it translates
Translation(t) == <<"#">> \o t

Min(a, b) == IF a < b THEN a ELSE b

SeqsUpTo(S, n) == UNION {[1..k -> S] : k \in 0..n}

\* the function f with every value worked out, so that applying it is a
\* look-up
Tabulated(f) == CHOOSE g \in {f} : g = f

\* sequencing: the value of `x` is computed, then `F` of that value
Then(x, F(_)) == CHOOSE r \in {F(y) : y \in {x}} : TRUE

----------------------------------------------------------------------------
(* Slides of the intermediate tree *)

Run(t) == [text |-> t]
Para(ts) == [runs |-> [i \in 1..Len(ts) |-> Run(ts[i])]]
TextElement(id, ty, paras) ==
    [shape_id |-> id, element_type |-> ty, paragraphs |-> paras, cells |-> <<>>]
TableElement(id, cs) ==
    [shape_id |-> id, element_type |-> "Table", paragraphs |-> <<>>, cells |-> cs]
Cell(r, c, paras) == [row |-> r, column |-> c, paragraphs |-> paras]

Layouts == {"one", "paras", "text_table", "table_text"}

FirstOf(ts) == IF ts = <<>> THEN <<>> ELSE <<ts[1]>>
RestOf(ts) == IF ts = <<>> THEN <<>> ELSE Tail(ts)

\* the slides the extractor hands over: the runs ts laid out in elements
BuildSlide(layout, ts) ==
    [elements |->
        CASE layout = "one" ->
               <<TextElement(2, "TextBox", <<Para(ts)>>)>>
          [] layout = "paras" ->
               <<TextElement(2, "AutoShape", <<Para(FirstOf(ts)), Para(RestOf(ts))>>)>>
          [] layout = "text_table" ->
               <<TextElement(2, "TextBox", <<Para(FirstOf(ts))>>),
                 TableElement(3, <<Cell(0, 0, <<Para(RestOf(ts))>>)>>)>>
          [] layout = "table_text" ->
               <<TableElement(2, <<Cell(0, 0, <<Para(FirstOf(ts))>>)>>),
                 TextElement(3, "TextBox", <<Para(RestOf(ts))>>)>>]

SrcSlides == {BuildSlide(l, ts) : l \in Layouts, ts \in SeqsUpTo(SrcTexts, MaxRuns)}

PictureElement(id) ==
    [shape_id |-> id, element_type |-> "Picture", paragraphs |-> <<>>, cells |-> <<>>]

\* the slides a presentation is made of here: text with a blank run and a
\* run-less paragraph next to a picture, a table before a text shape, no element
DeckSlides ==
    {[elements |-> <<TextElement(2, "TextBox", <<Para(<<<<"a">>, <<" ">>>>), Para(<<>>)>>),
                     PictureElement(3)>>],
     [elements |-> <<TableElement(4, <<Cell(0, 0, <<Para(<<<<"a">>>>)>>)>>),
                     TextElement(5, "AutoShape", <<Para(<<<<"a">>>>)>>)>>],
     [elements |-> <<>>]}

\* the slides translate_slide_with_retry is run on
RetryLayouts == {"one", "text_table"}
RetryTexts == {<<" ">>, <<"a">>}
RetrySlides == {BuildSlide(l, ts) : l \in RetryLayouts, ts \in SeqsUpTo(RetryTexts, MaxRuns)}

----------------------------------------------------------------------------
(* The translation stage, seen from translate_slide *)

\* what the backend does with one non-blank text: translates it, answers the
\* same text, or answers the same text with a trailing blank
Outcomes == {"tr", "same", "pad"}

RECURSIVE SumSeq(_)
SumSeq(ns) == IF ns = <<>> THEN 0 ELSE Head(ns) + SumSeq(Tail(ns))

RunsInParas(paras) == SumSeq([i \in 1..Len(paras) |-> Len(paras[i].runs)])
RunsInCells(cs) == SumSeq([i \in 1..Len(cs) |-> RunsInParas(cs[i].paragraphs)])
RunsInElement(e) == RunsInParas(e.paragraphs) + RunsInCells(e.cells)
RunsInSlide(slide) ==
    SumSeq([i \in 1..Len(slide.elements) |-> RunsInElement(slide.elements[i])])

\* translate_batch as its callers see it: a list of the same length, blank
\* texts passed through, every other text as the backend answered it
\* (oc[off + i] is the backend's behaviour for the i-th text of this call)
BatchAnswer(texts, oc, off) ==
    [i \in 1..Len(texts) |->
        IF IsBlank(texts[i]) THEN texts[i]
        ELSE CASE oc[off + i] = "tr" -> Translation(texts[i])
               [] oc[off + i] = "same" -> texts[i]
               [] oc[off + i] = "pad" -> texts[i] \o <<" ">>]

\* a translate_text_runs that gives back runs only for the texts it sent
TranslateTextRunsSentOnly(runs, oc, off) ==
    LET texts == [i \in 1..Len(runs) |-> runs[i].text]
        translated_texts == BatchAnswer(texts, oc, off)
        all == [i \in 1..Len(runs) |-> [runs[i] EXCEPT !.text = translated_texts[i]]]
    IN SelectSeq(all, LAMBDA run : ~IsBlank(run.text))

TranslateTextRuns(runs, oc, off) ==
    IF runs = <<>> THEN runs
    ELSE LET texts == [i \in 1..Len(runs) |-> runs[i].text]
             translated_texts == BatchAnswer(texts, oc, off)
         IN [i \in 1..Len(runs) |-> [runs[i] EXCEPT !.text = translated_texts[i]]]

TranslateParagraphs(paras, oc, off) ==
    [i \in 1..Len(paras) |->
        [paras[i] EXCEPT !.runs =
            TranslateTextRuns(@, oc, off + RunsInParas(SubSeq(paras, 1, i - 1)))]]

TranslateTextElement(e, oc, off) ==
    [e EXCEPT !.paragraphs = TranslateParagraphs(@, oc, off)]

TranslateTable(cs, oc, off) ==
    [i \in 1..Len(cs) |->
        [cs[i] EXCEPT !.paragraphs =
            TranslateParagraphs(@, oc, off + RunsInCells(SubSeq(cs, 1, i - 1)))]]

\* translate_slide: a new slide, element by element
TranslateSlide(slide, oc) ==
    [slide EXCEPT !.elements =
        [i \in 1..Len(slide.elements) |->
            LET e == slide.elements[i]
                off == SumSeq([j \in 1..(i - 1) |-> RunsInElement(slide.elements[j])])
            IN CASE e.element_type = "Table" ->
                      [e EXCEPT !.cells = TranslateTable(@, oc, off)]
                 [] e.element_type \in {"TextBox", "AutoShape"} ->
                      TranslateTextElement(e, oc, off)
                 [] OTHER -> e]]

----------------------------------------------------------------------------
(* The translation stage on objects: which dict and which list is written *)

\* The dicts and lists of the tree are objects in a store (a sequence; the
\* address of an object is its index). A dict holds its plain values in
\* `prims` and the addresses of its lists and dicts in `refs`, by key; a list
\* holds the addresses of its items. The slides here hold text elements,
\* tables and pictures; chart elements, speaker notes and SmartArt are not
\* part of them.
DictObj(prims, refs) == [kind |-> "dict", prims |-> prims, refs |-> refs, items |-> <<>>]
ListObj(items) == [kind |-> "list", prims |-> <<>>, refs |-> <<>>, items |-> items]

\* a new object, and where it is
NewObject(store, obj) == [store |-> Append(store, obj), at |-> Len(store) + 1]

\* d[key] = <the object at `to`>, d[key] = value
SetRef(store, d, key, to) == [store EXCEPT ![d].refs[key] = to]
SetPrim(store, d, key, value) == [store EXCEPT ![d].prims[key] = value]

\* a copy that is the object itself
NoCopy(store, a) == [store |-> store, at |-> a]

\* deepcopy(x): new objects all the way down (the trees share no object, so
\* the memo of deepcopy has no part)
RECURSIVE DeepCopy(_, _), DeepCopyItems(_, _, _), DeepCopyRefs(_, _, _)
DeepCopy(store, a) ==
    IF store[a].kind = "list"
    THEN Then(DeepCopyItems(store, store[a].items, <<>>), LAMBDA c :
              NewObject(c.store, ListObj(c.items)))
    ELSE Then(DeepCopyRefs(store, store[a].refs, DOMAIN store[a].refs), LAMBDA c :
              NewObject(c.store, DictObj(store[a].prims, c.refs)))

DeepCopyItems(store, items, acc) ==
    IF Len(acc) = Len(items) THEN [store |-> store, items |-> acc]
    ELSE Then(DeepCopy(store, items[Len(acc) + 1]), LAMBDA c :
              DeepCopyItems(c.store, items, Append(acc, c.at)))

DeepCopyRefs(store, refs, keys) ==
    IF keys = {} THEN [store |-> store, refs |-> refs]
    ELSE LET key == CHOOSE k \in keys : TRUE
         IN Then(DeepCopy(store, refs[key]), LAMBDA c :
                 DeepCopyRefs(c.store, [refs EXCEPT ![key] = c.at], keys \ {key}))

\* a slide of the tree put into the store: runs, paragraphs, cells, elements
RECURSIVE PutRuns(_, _, _)
PutRuns(store, runs, acc) ==
    IF Len(acc) = Len(runs) THEN NewObject(store, ListObj(acc))
    ELSE Then(NewObject(store, DictObj(runs[Len(acc) + 1], <<>>)), LAMBDA n :
              PutRuns(n.store, runs, Append(acc, n.at)))

RECURSIVE PutParagraphs(_, _, _)
PutParagraphs(store, paragraphs, acc) ==
    IF Len(acc) = Len(paragraphs) THEN NewObject(store, ListObj(acc))
    ELSE LET para == paragraphs[Len(acc) + 1]
         IN Then(PutRuns(store, para.runs, <<>>), LAMBDA r :
            Then(NewObject(r.store, DictObj([para EXCEPT !.runs = <<>>], [runs |-> r.at])),
                 LAMBDA n : PutParagraphs(n.store, paragraphs, Append(acc, n.at))))

RECURSIVE PutCells(_, _, _)
PutCells(store, cells, acc) ==
    IF Len(acc) = Len(cells) THEN NewObject(store, ListObj(acc))
    ELSE LET cell == cells[Len(acc) + 1]
         IN Then(PutParagraphs(store, cell.paragraphs, <<>>), LAMBDA ps :
            Then(NewObject(ps.store, DictObj([cell EXCEPT !.paragraphs = <<>>],
                                             [paragraphs |-> ps.at])),
                 LAMBDA n : PutCells(n.store, cells, Append(acc, n.at))))

\* a Table element holds its cells in element["table_data"]["cells"], a
\* TextBox or AutoShape its paragraphs in element["paragraphs"]; any other
\* element is kept as plain values
PutElement(store, element) ==
    CASE element.element_type = "Table" ->
           Then(PutCells(store, element.cells, <<>>), LAMBDA cs :
           Then(NewObject(cs.store, DictObj(<<>>, [cells |-> cs.at])), LAMBDA td :
                NewObject(td.store, DictObj([element EXCEPT !.cells = <<>>],
                                            [table_data |-> td.at]))))
      [] element.element_type \in {"TextBox", "AutoShape"} ->
           Then(PutParagraphs(store, element.paragraphs, <<>>), LAMBDA ps :
                NewObject(ps.store, DictObj([element EXCEPT !.paragraphs = <<>>],
                                            [paragraphs |-> ps.at])))
      [] OTHER -> NewObject(store, DictObj(element, <<>>))

RECURSIVE PutElements(_, _, _)
PutElements(store, elements, acc) ==
    IF Len(acc) = Len(elements) THEN NewObject(store, ListObj(acc))
    ELSE Then(PutElement(store, elements[Len(acc) + 1]), LAMBDA n :
              PutElements(n.store, elements, Append(acc, n.at)))

PutSlide(store, slide) ==
    Then(PutElements(store, slide.elements, <<>>), LAMBDA es :
         NewObject(es.store, DictObj([slide EXCEPT !.elements = <<>>],
                                     [elements |-> es.at])))

\* the slide a dict of the store stands for
RunsAt(store, runs) ==
    [i \in 1..Len(store[runs].items) |-> store[store[runs].items[i]].prims]

ParagraphsAt(store, paragraphs) ==
    [i \in 1..Len(store[paragraphs].items) |->
        LET para == store[store[paragraphs].items[i]]
        IN [para.prims EXCEPT !.runs = RunsAt(store, para.refs.runs)]]

CellsAt(store, cells) ==
    [i \in 1..Len(store[cells].items) |->
        LET cell == store[store[cells].items[i]]
        IN [cell.prims EXCEPT !.paragraphs = ParagraphsAt(store, cell.refs.paragraphs)]]

ElementAt(store, a) ==
    LET element == store[a]
    IN CASE element.prims.element_type = "Table" ->
              [element.prims EXCEPT
                  !.cells = CellsAt(store, store[element.refs.table_data].refs.cells)]
         [] element.prims.element_type \in {"TextBox", "AutoShape"} ->
              [element.prims EXCEPT
                  !.paragraphs = ParagraphsAt(store, element.refs.paragraphs)]
         [] OTHER -> element.prims

SlideAt(store, slide) ==
    [store[slide].prims EXCEPT
        !.elements = [i \in 1..Len(store[store[slide].refs.elements].items) |->
                         ElementAt(store, store[store[slide].refs.elements].items[i])]]

\* A call in progress: the store, the backend, how many run texts were sent
\* (off), how many times translate_batch was called (calls), the call of
\* translate_batch that raises (fail; 0 for none), whether it has raised, and
\* the object the call returns (at).
Call(store, oc, fail) ==
    [store |-> store, oc |-> oc, off |-> 0, calls |-> 0, fail |-> fail,
     raised |-> FALSE, at |-> 0]

\* translate_text_runs, the loop: new_run = deepcopy(run),
\* new_run["text"] = translated_texts[idx], translated_runs.append(new_run)
RECURSIVE TranslatedRunsIn(_, _, _, _)
TranslatedRunsIn(store, items, translated_texts, acc) ==
    IF Len(acc) = Len(items) THEN NewObject(store, ListObj(acc))
    ELSE Then(DeepCopy(store, items[Len(acc) + 1]), LAMBDA new_run :
              TranslatedRunsIn(SetPrim(new_run.store, new_run.at, "text",
                                       translated_texts[Len(acc) + 1]),
                               items, translated_texts, Append(acc, new_run.at)))

\* translate_text_runs(runs): an empty list is returned as it is
TranslateTextRunsIn(c, runs) ==
    LET items == c.store[runs].items
    IN IF items = <<>> THEN [c EXCEPT !.at = runs]
       ELSE IF c.calls + 1 = c.fail THEN [c EXCEPT !.calls = @ + 1, !.raised = TRUE]
       ELSE LET texts == [i \in 1..Len(items) |-> c.store[items[i]].prims.text]
                translated_texts == BatchAnswer(texts, c.oc, c.off)
            IN Then(TranslatedRunsIn(c.store, items, translated_texts, <<>>),
                    LAMBDA translated_runs :
                        [c EXCEPT !.store = translated_runs.store,
                                  !.at = translated_runs.at,
                                  !.off = @ + Len(items), !.calls = @ + 1])

\* translate_paragraphs, the loop: new_para = deepcopy(para),
\* new_para["runs"] = translate_text_runs(new_para["runs"])
RECURSIVE TranslatedParagraphsIn(_, _, _)
TranslatedParagraphsIn(c, items, acc) ==
    IF Len(acc) = Len(items)
    THEN Then(NewObject(c.store, ListObj(acc)), LAMBDA translated_paragraphs :
              [c EXCEPT !.store = translated_paragraphs.store,
                        !.at = translated_paragraphs.at])
    ELSE Then(DeepCopy(c.store, items[Len(acc) + 1]), LAMBDA new_para :
         Then(TranslateTextRunsIn([c EXCEPT !.store = new_para.store],
                                  new_para.store[new_para.at].refs.runs), LAMBDA t :
              IF t.raised THEN t
              ELSE TranslatedParagraphsIn(
                       [t EXCEPT !.store = SetRef(t.store, new_para.at, "runs", t.at)],
                       items, Append(acc, new_para.at))))

\* translate_paragraphs(paragraphs): an empty list is returned as it is
TranslateParagraphsIn(c, paragraphs) ==
    IF c.store[paragraphs].items = <<>> THEN [c EXCEPT !.at = paragraphs]
    ELSE TranslatedParagraphsIn(c, c.store[paragraphs].items, <<>>)

\* translate_text_element(element): new_element = deepcopy(element),
\* new_element["paragraphs"] = translate_paragraphs(new_element["paragraphs"])
TranslateTextElementIn(c, element) ==
    Then(DeepCopy(c.store, element), LAMBDA new_element :
    Then(TranslateParagraphsIn([c EXCEPT !.store = new_element.store],
                               new_element.store[new_element.at].refs.paragraphs),
         LAMBDA t :
             IF t.raised THEN t
             ELSE [t EXCEPT !.store = SetRef(t.store, new_element.at, "paragraphs", t.at),
                            !.at = new_element.at]))

\* translate_table, the loop over new_table["cells"]:
\* cell["paragraphs"] = translate_paragraphs(cell["paragraphs"]) is written
\* into the cell itself, which goes into translated_cells
RECURSIVE TranslatedCellsIn(_, _, _)
TranslatedCellsIn(c, items, acc) ==
    IF Len(acc) = Len(items)
    THEN Then(NewObject(c.store, ListObj(acc)), LAMBDA translated_cells :
              [c EXCEPT !.store = translated_cells.store, !.at = translated_cells.at])
    ELSE LET cell == items[Len(acc) + 1]
         IN Then(TranslateParagraphsIn(c, c.store[cell].refs.paragraphs), LAMBDA t :
                 IF t.raised THEN t
                 ELSE TranslatedCellsIn(
                          [t EXCEPT !.store = SetRef(t.store, cell, "paragraphs", t.at)],
                          items, Append(acc, cell)))

\* translate_table(table_data): new_table = deepcopy(table_data),
\* new_table["cells"] = translated_cells
TranslateTableIn(c, table_data) ==
    Then(DeepCopy(c.store, table_data), LAMBDA new_table :
    Then(TranslatedCellsIn([c EXCEPT !.store = new_table.store],
             new_table.store[new_table.store[new_table.at].refs.cells].items, <<>>),
         LAMBDA t :
             IF t.raised THEN t
             ELSE [t EXCEPT !.store = SetRef(t.store, new_table.at, "cells", t.at),
                            !.at = new_table.at]))

\* translate_slide, the loop over new_slide["elements"]: a Table element is
\* written in place (element["table_data"] = ...) and appended itself, a
\* TextBox or AutoShape is replaced by what translate_text_element returns,
\* any other element by its deepcopy
RECURSIVE TranslatedElementsIn(_, _, _)
TranslatedElementsIn(c, items, acc) ==
    IF Len(acc) = Len(items)
    THEN Then(NewObject(c.store, ListObj(acc)), LAMBDA translated_elements :
              [c EXCEPT !.store = translated_elements.store,
                        !.at = translated_elements.at])
    ELSE LET element == items[Len(acc) + 1]
             element_type == c.store[element].prims.element_type
         IN CASE element_type = "Table" ->
                   Then(TranslateTableIn(c, c.store[element].refs.table_data), LAMBDA t :
                        IF t.raised THEN t
                        ELSE TranslatedElementsIn(
                                 [t EXCEPT !.store = SetRef(t.store, element,
                                                            "table_data", t.at)],
                                 items, Append(acc, element)))
              [] element_type \in {"TextBox", "AutoShape"} ->
                   Then(TranslateTextElementIn(c, element), LAMBDA t :
                        IF t.raised THEN t
                        ELSE TranslatedElementsIn(t, items, Append(acc, t.at)))
              [] OTHER ->
                   Then(DeepCopy(c.store, element), LAMBDA n :
                        TranslatedElementsIn([c EXCEPT !.store = n.store], items,
                                             Append(acc, n.at)))

\* translate_slide(slide): new_slide = deepcopy(slide),
\* new_slide["elements"] = translated_elements
TranslateSlideIn(c, slide) ==
    Then(DeepCopy(c.store, slide), LAMBDA new_slide :
    Then(TranslatedElementsIn([c EXCEPT !.store = new_slide.store],
             new_slide.store[new_slide.store[new_slide.at].refs.elements].items, <<>>),
         LAMBDA t :
             IF t.raised THEN t
             ELSE [t EXCEPT !.store = SetRef(t.store, new_slide.at, "elements", t.at),
                            !.at = new_slide.at]))

\* translate_slide(slide) on the caller's dict: the call as it ends, by
\* returning or by the exception of its fail-th translate_batch
TranslateSlideCall(slide, oc, fail) ==
    Then(PutSlide(<<>>, slide), LAMBDA source :
         [source |-> source.at,
          call |-> TranslateSlideIn(Call(source.store, oc, fail), source.at)])

\* how many times translate_slide(slide) calls translate_batch
BatchCalls(slide, oc) == TranslateSlideCall(slide, oc, 0).call.calls

\* what the caller's slide dict holds when translate_slide(slide) has ended
SourceAfterTranslate(slide, oc, fail) ==
    Then(TranslateSlideCall(slide, oc, fail), LAMBDA done :
         SlideAt(done.call.store, done.source))

\* what translate_slide(slide) returns when no call raises
TranslatedSlideIn(slide, oc) ==
    Then(TranslateSlideCall(slide, oc, 0), LAMBDA done :
         SlideAt(done.call.store, done.call.at))

RECURSIVE Flatten(_)
Flatten(ss) == IF ss = <<>> THEN <<>> ELSE Head(ss) \o Flatten(Tail(ss))

TextsOfParas(paras) ==
    Flatten([p \in 1..Len(paras) |->
                [r \in 1..Len(paras[p].runs) |-> paras[p].runs[r].text]])
TextsOfElement(e) ==
    TextsOfParas(e.paragraphs)
        \o Flatten([c \in 1..Len(e.cells) |-> TextsOfParas(e.cells[c].paragraphs)])

\* every run text of the slide, in the order translate_slide walks them
TextsOfSlide(slide) ==
    Flatten([i \in 1..Len(slide.elements) |-> TextsOfElement(slide.elements[i])])

\* the backend behaviours over the texts of one slide that reach the backend
Oracles(slide) ==
    LET ts == TextsOfSlide(slide)
    IN [{i \in 1..Len(ts) : ~IsBlank(ts[i])} -> Outcomes]

\* what the caller's slide dict can hold when translate_slide(slide) has
\* raised: at any of its calls of translate_batch, or in the count after them
RaisedSources(slide) ==
    UNION {{SourceAfterTranslate(slide, oc, fail) :
                fail \in 1..(BatchCalls(slide, oc) + 1)} : oc \in Oracles(slide)}

\* translate_slide on each slide translate_slide_with_retry is run on, alone
\* or from translate_presentation: what it returns and what the caller's dict
\* holds when it has returned, by backend, and what the caller's dict can hold
\* when it has raised
TranslateSlideCalls ==
    Tabulated([slide \in RetrySlides \cup DeckSlides |->
        [translated |-> [oc \in Oracles(slide) |-> TranslateSlide(slide, oc)],
         returned |-> [oc \in Oracles(slide) |-> SourceAfterTranslate(slide, oc, 0)],
         raised |-> RaisedSources(slide)]])

\* the same, looked up where it was worked out before
TranslateSlideReturn(slide) ==
    IF slide \in DOMAIN TranslateSlideCalls
    THEN TranslateSlideCalls[slide].translated
    ELSE [oc \in Oracles(slide) |-> TranslateSlide(slide, oc)]

SourceAfterReturn(slide) ==
    IF slide \in DOMAIN TranslateSlideCalls
    THEN TranslateSlideCalls[slide].returned
    ELSE [oc \in Oracles(slide) |-> SourceAfterTranslate(slide, oc, 0)]

SourceAfterRaise(slide) ==
    IF slide \in DOMAIN TranslateSlideCalls
    THEN TranslateSlideCalls[slide].raised
    ELSE RaisedSources(slide)

----------------------------------------------------------------------------
(* count_untranslated_texts *)

\* the test of one pair of runs
RunUntranslatedNoStrip(orig_run, trans_run) ==
    LET orig_text == orig_run.text
        trans_text == trans_run.text
    IN orig_text # <<>> /\ trans_text # <<>> /\ orig_text = trans_text

RunUntranslated(orig_run, trans_run) ==
    LET orig_text == Strip(orig_run.text)
        trans_text == Strip(trans_run.text)
    IN orig_text # <<>> /\ trans_text # <<>> /\ orig_text = trans_text

\* the inner loops: zip over the paragraphs, zip over the runs
CountInParas(orig_paragraphs, trans_paragraphs) ==
    SumSeq([p \in 1..Min(Len(orig_paragraphs), Len(trans_paragraphs)) |->
        LET orig_runs == orig_paragraphs[p].runs
            trans_runs == trans_paragraphs[p].runs
        IN Cardinality({r \in 1..Min(Len(orig_runs), Len(trans_runs)) :
                            RunUntranslated(orig_runs[r], trans_runs[r])})])

\* the element types whose runs are compared
CountedTypesAll == {"TextBox", "AutoShape", "Table", "Chart", "Picture", "Other"}

CountedTypes == {"TextBox", "AutoShape"}

CountUntranslatedTexts(original_slide, translated_slide) ==
    LET orig_elements == original_slide.elements
        trans_elements == translated_slide.elements
    IN SumSeq([e \in 1..Min(Len(orig_elements), Len(trans_elements)) |->
            IF orig_elements[e].element_type \in CountedTypes
            THEN CountInParas(orig_elements[e].paragraphs, trans_elements[e].paragraphs)
            ELSE 0])

----------------------------------------------------------------------------
(* translate_slide_with_retry *)

\* `if untranslated_count == 0`
IsPerfect(untranslated_count) == untranslated_count = 0

\* `if untranslated_count < best_untranslated_count` (<<>> is float('inf'))
IsBetterOrEqual(untranslated_count, best_count) ==
    best_count = <<>> \/ untranslated_count <= best_count[1]

IsBetter(untranslated_count, best_count) ==
    best_count = <<>> \/ untranslated_count < best_count[1]

\* `if attempt < max_retries - 1` : another attempt follows this one
AlwaysRetry(attempt, max_retries) == attempt < max_retries

ShouldRetry(attempt, max_retries) == attempt < max_retries - 1

\* the except clause of the loop body: retry, or give the source slide back
ExceptActionReraise(attempt, max_retries) ==
    IF attempt < max_retries - 1 THEN "retry" ELSE "raise"

ExceptAction(attempt, max_retries) ==
    IF attempt < max_retries - 1 THEN "retry" ELSE "fallback"

\* deepcopy(slide): an equal value, made by no attempt
SourceCopy(slide) == <<[slide |-> slide, by |-> 0]>>

RetryInit ==
    /\ r_slide \in RetrySlides
    /\ r_max \in 0..MaxRetriesArg
    /\ r_attempt = 0
    /\ r_best = <<>>
    /\ r_best_count = <<>>
    /\ r_pc = "loop"
    /\ r_result = <<>>
    /\ r_calls = 0
    /\ r_sleeps = 0
    /\ r_hist = <<>>

RetryIdle ==
    /\ r_slide = [elements |-> <<>>]
    /\ r_max = 0
    /\ r_attempt = 0
    /\ r_best = <<>>
    /\ r_best_count = <<>>
    /\ r_pc = "idle"
    /\ r_result = <<>>
    /\ r_calls = 0
    /\ r_sleeps = 0
    /\ r_hist = <<>>

\* the loop body after a completed attempt: what is kept, whether the call
\* returns (and what), whether it sleeps before the next attempt
AfterAttemptNoEarlyReturn(attempt, max_retries, untranslated_count, this, best, best_count) ==
    LET better == IsBetter(untranslated_count, best_count)
        nb == IF better THEN this ELSE best
        nbc == IF better THEN <<untranslated_count>> ELSE best_count
    IN IF ShouldRetry(attempt, max_retries)
       THEN [returns |-> FALSE, result |-> <<>>, best |-> nb, best_count |-> nbc,
             sleeps |-> TRUE]
       ELSE [returns |-> TRUE, result |-> nb, best |-> nb, best_count |-> nbc,
             sleeps |-> FALSE]

AfterAttempt(attempt, max_retries, untranslated_count, this, best, best_count) ==
    IF IsPerfect(untranslated_count)
    THEN [returns |-> TRUE, result |-> this, best |-> best, best_count |-> best_count,
          sleeps |-> FALSE]
    ELSE LET better == IsBetter(untranslated_count, best_count)
             nb == IF better THEN this ELSE best
             nbc == IF better THEN <<untranslated_count>> ELSE best_count
         IN IF ShouldRetry(attempt, max_retries) /\ untranslated_count > 0
            THEN [returns |-> FALSE, result |-> <<>>, best |-> nb, best_count |-> nbc,
                  sleeps |-> TRUE]
            ELSE [returns |-> TRUE, result |-> nb, best |-> nb, best_count |-> nbc,
                  sleeps |-> FALSE]

\* one pass of the loop body in which translate_slide and the count complete
AttemptCompletes ==
    /\ r_pc = "loop"
    /\ r_attempt < r_max
    /\ LET translated == TranslateSlideReturn(r_slide)
           returned == SourceAfterReturn(r_slide)
       IN \E oc \in Oracles(r_slide) :
            LET translated_slide == translated[oc]
                slide == returned[oc]
                untranslated_count == CountUntranslatedTexts(slide, translated_slide)
                this == <<[slide |-> translated_slide, by |-> r_attempt + 1]>>
                step == AfterAttempt(r_attempt, r_max, untranslated_count, this,
                                     r_best, r_best_count)
            IN /\ r_slide' = slide
               /\ r_calls' = r_calls + 1
               /\ r_hist' = Append(r_hist, untranslated_count)
               /\ r_best' = step.best
               /\ r_best_count' = step.best_count
               /\ r_sleeps' = IF step.sleeps THEN r_sleeps + 1 ELSE r_sleeps
               /\ r_pc' = IF step.returns THEN "done" ELSE "loop"
               /\ r_result' = step.result
               /\ r_attempt' = IF step.returns THEN r_attempt ELSE r_attempt + 1
    /\ UNCHANGED r_max

\* one pass of the loop body in which translate_slide raises, at one of its
\* calls of translate_batch, or the count raises after it
AttemptRaises ==
    /\ r_pc = "loop"
    /\ r_attempt < r_max
    /\ r_slide' \in SourceAfterRaise(r_slide)
    /\ r_calls' = r_calls + 1
    /\ r_hist' = Append(r_hist, -1)
    /\ LET what == ExceptAction(r_attempt, r_max)
       IN CASE what = "retry" ->
                 /\ r_sleeps' = r_sleeps + 1
                 /\ r_attempt' = r_attempt + 1
                 /\ UNCHANGED <<r_pc, r_result>>
            [] what = "fallback" ->
                 /\ r_pc' = "done"
                 /\ r_result' = SourceCopy(r_slide')
                 /\ UNCHANGED <<r_attempt, r_sleeps>>
            [] OTHER ->
                 /\ r_pc' = "propagated"
                 /\ UNCHANGED <<r_result, r_attempt, r_sleeps>>
    /\ UNCHANGED <<r_max, r_best, r_best_count>>

\* range(max_retries) is exhausted: the statement after the loop
LoopExhausted ==
    /\ r_pc = "loop"
    /\ r_attempt >= r_max
    /\ r_pc' = "done"
    /\ r_result' = IF r_best # <<>> THEN r_best ELSE SourceCopy(r_slide)
    /\ UNCHANGED <<r_slide, r_max, r_attempt, r_best, r_best_count,
                   r_calls, r_sleeps, r_hist>>

----------------------------------------------------------------------------
(* count_untranslated_texts on its own *)

CountInit ==
    /\ c_orig \in SrcSlides
    /\ c_trans = <<>>
    /\ c_count = -1

CountIdle ==
    /\ c_orig = [elements |-> <<>>]
    /\ c_trans = <<>>
    /\ c_count = -1

\* one call count_untranslated_texts(original, translate_slide(original))
CountCall ==
    /\ c_trans = <<>>
    /\ \E oc \in Oracles(c_orig) :
         LET translated_slide == TranslateSlide(c_orig, oc)
         IN /\ c_trans' = <<translated_slide>>
            /\ c_count' = CountUntranslatedTexts(c_orig, translated_slide)
    /\ UNCHANGED c_orig

----------------------------------------------------------------------------
(* translate_batch: the inputs and the backend *)

\* the i-th ordinary text: i letters
Word(i) == [k \in 1..i |-> "a"]

\* lists whose ordinary texts differ by position, with up to two blank
\* entries: a whitespace-only text, and after it an empty one
BatchInputs ==
    UNION {{[i \in 1..n |-> CASE f[i] = "w" -> Word(i)
                              [] f[i] = "e" -> <<>>
                              [] f[i] = "s" -> <<" ">>] :
               f \in {g \in [1..n -> {"w", "e", "s"}] :
                         /\ Cardinality({i \in 1..n : g[i] = "s"}) <= 1
                         /\ Cardinality({i \in 1..n : g[i] = "e"}) <= 1
                         /\ \A i \in 1..n : g[i] = "e" => \E j \in 1..(i - 1) : g[j] = "s"}} :
           n \in 0..MaxTexts}

\* a text_map that tests `if text` only: whitespace is sent too
RECURSIVE NonEmptyFrom(_, _)
NonEmptyFrom(texts, i) ==
    IF i > Len(texts) THEN <<>>
    ELSE (IF texts[i] # <<>> THEN <<i>> ELSE <<>>) \o NonEmptyFrom(texts, i + 1)

\* text_map: the positions of the texts that are sent, in order
\* (`if text and text.strip()`)
RECURSIVE NonBlankFrom(_, _)
NonBlankFrom(texts, i) ==
    IF i > Len(texts) THEN <<>>
    ELSE (IF ~IsBlank(texts[i]) THEN <<i>> ELSE <<>>) \o NonBlankFrom(texts, i + 1)

TextMapNoStrip(texts) == NonEmptyFrom(texts, 1)

TextMap(texts) == NonBlankFrom(texts, 1)

\* non_empty_texts
NonEmptyTexts(texts) == [k \in 1..Len(TextMap(texts)) |-> texts[TextMap(texts)[k]]]

\* a text no input asked for
Garbage == <<"?">>

RemoveAt(xs, j) == SubSeq(xs, 1, j - 1) \o SubSeq(xs, j + 1, Len(xs))

\* the item lists of a 200 answer to a positional request (DeepL): each item
\* is a text; all items, one item missing, or one item too many
Items200(req) ==
    LET full == [k \in 1..Len(req) |-> Translation(req[k])]
    IN {full, full \o <<Garbage>>} \cup {RemoveAt(full, j) : j \in 1..Len(req)}

\* the item lists of a parsed JSON answer (GPT): each item carries the id of
\* the input it translates (0-based); in order, reversed, one item missing,
\* or one item too many
ItemsById(req) ==
    LET full == [k \in 1..Len(req) |-> [id |-> k - 1, text |-> Translation(req[k])]]
        rev == [k \in 1..Len(req) |-> full[Len(req) + 1 - k]]
    IN {full, rev, full \o <<[id |-> Len(req), text |-> Garbage]>>}
         \cup {RemoveAt(full, j) : j \in 1..Len(req)}

\* the answers told apart by translate_batch ("200nojson": status 200 with a
\* body requests cannot decode, a RequestException) and by translate_single
BatchStatuses == {"200", "200nojson", "408", "400glossary", "400", "429", "500"}
\* ("200notext": status 200 whose first translation has no text)
SingleAnswers == {"200", "200notext", "500", "429", "403", "timeout", "error"}

----------------------------------------------------------------------------
(* translate_batch: the pieces of the code *)

\* max_retries of the batch request loop, retry_delay, the split threshold
BatchMaxRetries == 3
BatchRetryDelay == 2
SplitAbove == 5
\* max_retries of translate_single
SingleMaxRetries == 3

\* no backoff: the same wait every time
PowOne(n) == 1

RECURSIVE Pow2(_)
Pow2(n) == IF n = 0 THEN 1 ELSE 2 * Pow2(n - 1)

\* result_texts = texts.copy(); for new_idx, orig_idx in text_map.items(): ...
ReconstructUnguarded(texts, translated_texts) == translated_texts

Reconstruct(texts, translated_texts) ==
    LET text_map == TextMap(texts)
    IN [i \in 1..Len(texts) |->
          IF \E k \in 1..Len(text_map) : text_map[k] = i /\ k <= Len(translated_texts)
          THEN translated_texts[CHOOSE k \in 1..Len(text_map) : text_map[k] = i]
          ELSE texts[i]]

\* the count added to total_texts_translated for an answered batch
CountedAll(texts) == Len(texts)

Counted(texts) == Len(NonEmptyTexts(texts))

\* translated_json sorted by id, cut to the request's length, read by position
\* (translator.py lines 147-155); <<>> stands for `return texts`.
\* sorted() is stable: items of equal id keep their order
SortById(items) ==
    LET RECURSIVE Ins(_, _)
        Ins(x, ys) == IF ys = <<>> THEN <<x>>
                      ELSE IF x.id <= Head(ys).id THEN <<x>> \o ys
                      ELSE <<Head(ys)>> \o Ins(x, Tail(ys))
        RECURSIVE Srt(_)
        Srt(xs) == IF xs = <<>> THEN <<>> ELSE Ins(Head(xs), Srt(Tail(xs)))
    IN Srt(items)

TextsOfJson(items, non_empty_texts) ==
    LET sorted == SortById(items)
        cut == SubSeq(sorted, 1, Min(Len(sorted), Len(non_empty_texts)))
    IN [k \in 1..Len(cut) |-> cut[k].text]

\* the loop of translate_one_by_one: blank items are appended as they are
RECURSIVE SkipBlanks(_, _)
SkipBlanks(list, acc) ==
    IF Len(acc) < Len(list) /\ IsBlank(list[Len(acc) + 1])
    THEN SkipBlanks(list, Append(acc, list[Len(acc) + 1]))
    ELSE acc

\* the halves of the split batch
Mid(non_empty_texts) == Len(non_empty_texts) \div 2
FirstHalf(non_empty_texts) == SubSeq(non_empty_texts, 1, Mid(non_empty_texts))
SecondHalf(non_empty_texts) ==
    SubSeq(non_empty_texts, Mid(non_empty_texts) + 1, Len(non_empty_texts))

\* the input position behind item k of the list a request or item loop works on
InputPosition(ret, texts, k) ==
    CASE ret = "obo" -> k
      [] ret = "batch" -> TextMap(texts)[k]
      [] ret = "small1" -> TextMap(texts)[k]
      [] ret = "small2" -> TextMap(texts)[Mid(NonEmptyTexts(texts)) + k]

\* b_answers after the backend answered `items` (texts, by position) to the
\* request `ret`
Answered(answers, ret, texts, n, items) ==
    [i \in DOMAIN answers |->
        answers[i] \cup {items[k] : k \in {k \in 1..Min(n, Len(items)) :
                                              InputPosition(ret, texts, k) = i}}]

\* b_answers after the backend answered items carrying ids
AnsweredById(answers, texts, items) ==
    [i \in DOMAIN answers |->
        answers[i] \cup {items[k].text : k \in {k \in 1..Len(items) :
                              /\ items[k].id + 1 <= Len(TextMap(texts))
                              /\ TextMap(texts)[items[k].id + 1] = i}}]

----------------------------------------------------------------------------
(* translate_batch: the steps *)

\* a call of translate_batch on a translator that is new or was used before:
\* self._glossary_failed may be set by an earlier call (it is never reset), and
\* then no request carries glossary_id; otherwise the request carries it when
\* the translator has one. self.stats is as __init__ set it, or as an earlier
\* call that translated one text with one request left it
BatchInit ==
    /\ b_translator \in {"deepl", "gpt"}
    /\ b_texts \in BatchInputs
    /\ b_pc = "start"
    /\ b_attempt = 0
    /\ b_gloss_failed \in (IF b_translator = "deepl" THEN BOOLEAN ELSE {FALSE})
    /\ b_gloss \in (IF b_translator = "deepl" /\ ~b_gloss_failed THEN BOOLEAN ELSE {FALSE})
    /\ b_stats0 \in {[api_calls |-> 0, total_texts_translated |-> 0],
                     [api_calls |-> 1, total_texts_translated |-> 1]}
    /\ b_list = <<>>
    /\ b_acc = <<>>
    /\ b_sattempt = 0
    /\ b_ret = "batch"
    /\ b_first = <<>>
    /\ b_out = <<>>
    /\ b_total = b_stats0.total_texts_translated
    /\ b_api = b_stats0.api_calls
    /\ b_sent = {}
    /\ b_answers = [i \in 1..Len(b_texts) |-> {}]
    /\ b_waits = <<>>
    /\ b_path = {}

BatchIdle ==
    /\ b_translator = "none"
    /\ b_texts = <<>>
    /\ b_pc = "idle"
    /\ b_attempt = 0
    /\ b_gloss = FALSE
    /\ b_gloss_failed = FALSE
    /\ b_list = <<>>
    /\ b_acc = <<>>
    /\ b_sattempt = 0
    /\ b_ret = "batch"
    /\ b_first = <<>>
    /\ b_out = <<>>
    /\ b_total = 0
    /\ b_api = 0
    /\ b_stats0 = [api_calls |-> 0, total_texts_translated |-> 0]
    /\ b_sent = {}
    /\ b_answers = <<>>
    /\ b_waits = <<>>
    /\ b_path = {}

\* return `out`
Return(out) ==
    /\ b_pc' = "done"
    /\ b_out' = out

\* hand `list` to the item loop run by `ret`
StartItems(list, ret) ==
    LET acc == SkipBlanks(list, <<>>)
    IN /\ b_list' = list
       /\ b_ret' = ret
       /\ b_sattempt' = 0
       /\ b_acc' = acc
       /\ b_pc' = "single"

\* return self.translate_one_by_one(texts)
FallBackOneByOne ==
    /\ StartItems(b_texts, "obo")
    /\ UNCHANGED <<b_out, b_first>>

\* the entry of translate_batch: nothing to do, or filter and build the request
BatchStart ==
    /\ b_pc = "start"
    /\ IF b_texts = <<>> \/ NonEmptyTexts(b_texts) = <<>>
       THEN Return(b_texts)
       ELSE b_pc' = "post" /\ UNCHANGED b_out
    /\ UNCHANGED <<b_stats0, b_translator, b_texts, b_attempt, b_gloss, b_gloss_failed, b_list,
                   b_acc, b_sattempt, b_ret, b_first, b_total, b_api, b_sent,
                   b_answers, b_waits, b_path>>

\* DeepL: requests.post of the batch raises Timeout or another RequestException
DeepLPostFails ==
    /\ b_translator = "deepl" /\ b_pc = "post"
    /\ \E kind \in {"timeout", "connection"} :
         /\ b_sent' = b_sent \cup {NonEmptyTexts(b_texts)[k] : k \in 1..Len(NonEmptyTexts(b_texts))}
         /\ IF b_attempt < BatchMaxRetries - 1
            THEN /\ b_waits' = Append(b_waits, BatchRetryDelay * Pow2(b_attempt))
                 /\ b_attempt' = b_attempt + 1
                 /\ UNCHANGED <<b_pc, b_list, b_acc, b_sattempt, b_ret, b_out, b_first>>
            ELSE /\ FallBackOneByOne
                 /\ UNCHANGED <<b_waits, b_attempt>>
    /\ UNCHANGED <<b_stats0, b_translator, b_texts, b_gloss, b_gloss_failed, b_total, b_api,
                   b_answers, b_path>>

\* a handling that sends the batch again whenever a 400 names the glossary
DeepLHandleRepeating(status, items, malformed) ==
    IF status = "400glossary"
    THEN /\ b_pc' = "resend"
         /\ UNCHANGED <<b_out, b_path, b_total, b_api, b_answers, b_list, b_acc,
                        b_sattempt, b_ret, b_first>>
    ELSE
    IF status = "200"
    THEN IF malformed
         THEN /\ Return(b_texts)
              /\ b_path' = b_path \cup {"malformed"}
              /\ UNCHANGED <<b_total, b_api, b_answers, b_list, b_acc, b_sattempt,
                             b_ret, b_first>>
         ELSE /\ Return(Reconstruct(b_texts, items))
              /\ b_api' = b_api + 1
              /\ b_total' = b_total + Counted(b_texts)
              /\ b_answers' = Answered(b_answers, "batch", b_texts,
                                       Len(NonEmptyTexts(b_texts)), items)
              /\ b_path' = b_path \cup
                    (IF Len(items) < Len(NonEmptyTexts(b_texts)) THEN {"fewer"}
                     ELSE IF Len(items) > Len(NonEmptyTexts(b_texts)) THEN {"more"}
                     ELSE {"answered"})
              /\ UNCHANGED <<b_list, b_acc, b_sattempt, b_ret, b_first>>
    ELSE /\ FallBackOneByOne
         /\ UNCHANGED <<b_total, b_api, b_answers, b_path>>

\* what translate_batch does with an answer that is not 408 and not a 400
\* naming the glossary: 200 is parsed, anything else falls back
DeepLHandle(status, items, malformed) ==
    IF status = "200"
    THEN IF malformed
         THEN /\ Return(b_texts)
              /\ b_path' = b_path \cup {"malformed"}
              /\ UNCHANGED <<b_total, b_api, b_answers, b_list, b_acc, b_sattempt,
                             b_ret, b_first>>
         ELSE /\ Return(Reconstruct(b_texts, items))
              /\ b_api' = b_api + 1
              /\ b_total' = b_total + Counted(b_texts)
              /\ b_answers' = Answered(b_answers, "batch", b_texts,
                                       Len(NonEmptyTexts(b_texts)), items)
              /\ b_path' = b_path \cup
                    (IF Len(items) < Len(NonEmptyTexts(b_texts)) THEN {"fewer"}
                     ELSE IF Len(items) > Len(NonEmptyTexts(b_texts)) THEN {"more"}
                     ELSE {"answered"})
              /\ UNCHANGED <<b_list, b_acc, b_sattempt, b_ret, b_first>>
    ELSE /\ FallBackOneByOne
         /\ UNCHANGED <<b_total, b_api, b_answers, b_path>>

\* DeepL: the batch request is answered
DeepLPostAnswered ==
    /\ b_translator = "deepl" /\ b_pc = "post"
    /\ b_sent' = b_sent \cup {NonEmptyTexts(b_texts)[k] : k \in 1..Len(NonEmptyTexts(b_texts))}
    /\ \E status \in BatchStatuses :
         CASE status = "408" ->
                /\ IF Len(NonEmptyTexts(b_texts)) > SplitAbove
                   THEN /\ b_pc' = "small1"
                        /\ UNCHANGED <<b_list, b_acc, b_sattempt, b_ret, b_out, b_first>>
                   ELSE FallBackOneByOne
                /\ UNCHANGED <<b_total, b_api, b_answers, b_gloss_failed, b_path>>
           [] status = "400glossary" ->
                /\ b_gloss_failed' = TRUE
                /\ b_pc' = "resend"
                /\ b_path' = b_path \cup {"resend"}
                /\ UNCHANGED <<b_list, b_acc, b_sattempt, b_ret, b_out, b_first,
                               b_total, b_api, b_answers>>
           [] status = "200" ->
                /\ \/ \E items \in Items200(NonEmptyTexts(b_texts)) :
                         DeepLHandle("200", items, FALSE)
                   \/ DeepLHandle("200", <<>>, TRUE)
                /\ UNCHANGED b_gloss_failed
           [] OTHER ->
                /\ DeepLHandle(status, <<>>, FALSE)
                /\ UNCHANGED b_gloss_failed
    /\ UNCHANGED <<b_stats0, b_translator, b_texts, b_attempt, b_gloss, b_waits>>

\* one item of the item loop is settled with the text v: go on with the next
\* item, or give the finished list to whoever asked for it
FinishItem(v) ==
    LET acc == SkipBlanks(b_list, Append(b_acc, v))
    IN IF Len(acc) < Len(b_list)
       THEN /\ b_acc' = acc
            /\ b_sattempt' = 0
            /\ UNCHANGED <<b_pc, b_out, b_first, b_list, b_ret>>
       ELSE /\ b_acc' = <<>>
            /\ b_sattempt' = 0
            /\ b_list' = <<>>
            /\ b_ret' = "batch"
            /\ CASE b_ret = "small1" ->
                      /\ b_first' = acc
                      /\ b_pc' = "small2"
                      /\ UNCHANGED b_out
                 [] b_ret = "small2" ->
                      /\ Return(Reconstruct(b_texts, b_first \o acc))
                      /\ b_first' = <<>>
                 [] OTHER ->
                      /\ Return(acc)
                      /\ UNCHANGED b_first

\* DeepL: the re-send without glossary_id is answered, or raises
DeepLResend ==
    /\ b_translator = "deepl" /\ b_pc = "resend"
    /\ b_gloss' = FALSE
    /\ b_sent' = b_sent \cup {NonEmptyTexts(b_texts)[k] : k \in 1..Len(NonEmptyTexts(b_texts))}
    /\ \E status \in BatchStatuses \cup {"error"} :
         IF status = "200"
         THEN \/ \E items \in Items200(NonEmptyTexts(b_texts)) :
                    DeepLHandle("200", items, FALSE)
              \/ DeepLHandle("200", <<>>, TRUE)
         ELSE DeepLHandle(status, <<>>, FALSE)
    /\ UNCHANGED <<b_stats0, b_translator, b_texts, b_attempt, b_gloss_failed, b_waits>>

\* DeepL: translate_batch_small on one half of the split batch
DeepLSmallPost ==
    /\ b_translator = "deepl" /\ b_pc \in {"small1", "small2"}
    /\ LET half == IF b_pc = "small1" THEN FirstHalf(NonEmptyTexts(b_texts))
                   ELSE SecondHalf(NonEmptyTexts(b_texts))
       IN /\ b_sent' = b_sent \cup {half[k] : k \in 1..Len(half)}
          /\ b_path' = b_path \cup {"split"}
          /\ \/ \E items \in Items200(half) :
                  /\ b_api' = b_api + 1
                  /\ b_total' = b_total + Len(half)
                  /\ b_answers' = Answered(b_answers, b_pc, b_texts, Len(half), items)
                  /\ IF b_pc = "small1"
                     THEN /\ b_first' = items
                          /\ b_pc' = "small2"
                          /\ UNCHANGED b_out
                     ELSE /\ Return(Reconstruct(b_texts, b_first \o items))
                          /\ b_first' = <<>>
                  /\ UNCHANGED <<b_list, b_acc, b_sattempt, b_ret>>
             \/ /\ StartItems(half, b_pc)
                /\ UNCHANGED <<b_api, b_total, b_answers, b_out, b_first>>
    /\ UNCHANGED <<b_stats0, b_translator, b_texts, b_attempt, b_gloss, b_gloss_failed, b_waits>>

\* translate_single after one request: the text is translated, the request
\* is repeated, or the original text is kept
SingleOutcome(answer, attempt) ==
    CASE answer = "200" -> "translated"
      [] answer = "200notext" -> "counted"
      [] answer \in {"500", "timeout", "error"} ->
            IF attempt < SingleMaxRetries - 1 THEN "retry" ELSE "original"
      [] answer = "429" -> "retry"
      [] OTHER -> "original"

\* DeepL: one request of translate_single for the current item
DeepLSingle ==
    /\ b_translator = "deepl" /\ b_pc = "single"
    /\ LET k == Len(b_acc) + 1
           text == b_list[k]
       IN /\ b_sent' = b_sent \cup {text}
          /\ \E what \in {SingleOutcome(answer, b_sattempt) : answer \in SingleAnswers} :
               CASE what = "translated" ->
                      /\ FinishItem(Translation(text))
                      /\ b_api' = b_api + 1
                      /\ b_total' = b_total + 1
                      /\ b_answers' = [b_answers EXCEPT
                             ![InputPosition(b_ret, b_texts, k)] = @ \cup {Translation(text)}]
                 [] what = "counted" ->
                      /\ FinishItem(text)
                      /\ b_api' = b_api + 1
                      /\ b_total' = b_total + 1
                      /\ UNCHANGED b_answers
                 [] what = "retry" /\ b_sattempt + 1 < SingleMaxRetries ->
                      /\ b_sattempt' = b_sattempt + 1
                      /\ UNCHANGED <<b_pc, b_out, b_first, b_list, b_ret, b_acc,
                                     b_api, b_total, b_answers>>
                 [] OTHER ->
                      /\ FinishItem(text)
                      /\ UNCHANGED <<b_api, b_total, b_answers>>
    /\ b_path' = b_path \cup {"single"}
    /\ UNCHANGED <<b_stats0, b_translator, b_texts, b_attempt, b_gloss, b_gloss_failed, b_waits>>

\* GPT: the chat completion for the batch raises, or answers something that
\* is parsed (or not) into a list of items
GptBatchCall ==
    /\ b_translator = "gpt" /\ b_pc = "post"
    /\ b_sent' = b_sent \cup {NonEmptyTexts(b_texts)[k] : k \in 1..Len(NonEmptyTexts(b_texts))}
    /\ \/ \* the call raises
          /\ FallBackOneByOne
          /\ UNCHANGED <<b_api, b_total, b_answers, b_path>>
       \/ \* the answer is no JSON
          /\ FallBackOneByOne
          /\ b_api' = b_api + 1
          /\ UNCHANGED <<b_total, b_answers, b_path>>
       \/ \* the answer is JSON, but no list of items with ids of the right length
          /\ Return(b_texts)
          /\ b_api' = b_api + 1
          /\ b_path' = b_path \cup {"malformed"}
          /\ UNCHANGED <<b_total, b_answers, b_list, b_acc, b_sattempt, b_ret, b_first>>
       \/ \E items \in ItemsById(NonEmptyTexts(b_texts)) :
            LET translated_texts == TextsOfJson(items, NonEmptyTexts(b_texts))
            IN /\ Return(Reconstruct(b_texts, translated_texts))
               /\ b_api' = b_api + 1
               /\ b_total' = b_total + Counted(b_texts)
               /\ b_answers' = AnsweredById(b_answers, b_texts, items)
               /\ b_path' = b_path \cup
                     (IF Len(items) < Len(NonEmptyTexts(b_texts)) THEN {"fewer"}
                      ELSE IF Len(items) > Len(NonEmptyTexts(b_texts)) THEN {"more"}
                      ELSE {"answered"})
               /\ UNCHANGED <<b_list, b_acc, b_sattempt, b_ret, b_first>>
    /\ UNCHANGED <<b_stats0, b_translator, b_texts, b_attempt, b_gloss, b_gloss_failed, b_waits>>

\* GPT: translate_one_by_one asks for the current item. The counters are
\* raised between the call and the reading of the answer, inside one try:
\* api_calls, then total_tokens_used from response.usage, then
\* total_texts_translated, then message.content.strip()
GptSingle ==
    /\ b_translator = "gpt" /\ b_pc = "single"
    /\ LET k == Len(b_acc) + 1
           text == b_list[k]
       IN /\ b_sent' = b_sent \cup {text}
          /\ \/ \* the completion has a text
                /\ FinishItem(Strip(Translation(text)))
                /\ b_api' = b_api + 1
                /\ b_total' = b_total + 1
                /\ b_answers' = [b_answers EXCEPT ![k] = @ \cup {Strip(Translation(text))}]
             \/ \* the completion's content is None: .strip() raises
                /\ FinishItem(text)
                /\ b_api' = b_api + 1
                /\ b_total' = b_total + 1
                /\ UNCHANGED b_answers
             \/ \* the completion's usage is None: .total_tokens raises
                /\ FinishItem(text)
                /\ b_api' = b_api + 1
                /\ UNCHANGED <<b_total, b_answers>>
             \/ \* the call raises
                /\ FinishItem(text)
                /\ UNCHANGED <<b_api, b_total, b_answers>>
    /\ b_path' = b_path \cup {"single"}
    /\ UNCHANGED <<b_stats0, b_translator, b_texts, b_attempt, b_gloss, b_gloss_failed, b_waits>>

----------------------------------------------------------------------------
(* PPTXReassembler: the live presentation and the translated tree *)

\* the font of a run nobody formatted
NoFormat == [bold |-> "none", italic |-> "none", font_size |-> 0, color |-> "none"]

LiveRun(t, font) == [text |-> t, font |-> font]
LivePara(runs) == [runs |-> runs, rtl |-> "none", algn |-> "none"]
TextFrame(paras) == [paragraphs |-> paras, word_wrap |-> FALSE, auto_size |-> "none"]

\* a paragraph of plain runs with the given texts
PlainPara(ts) == LivePara([i \in 1..Len(ts) |-> LiveRun(ts[i], NoFormat)])

\* live shapes: every shape has the same fields, the unused ones empty;
\* placed is FALSE for a shape whose left and width read as None
LiveShape(id, name, kind, left, width) ==
    [shape_id |-> id, name |-> name, kind |-> kind, left |-> left, width |-> width,
     placed |-> TRUE,
     text_frame |-> TextFrame(<<>>), rows |-> <<>>, chart |-> <<>>, shapes |-> <<>>]
\* a shape without a position of its own
Unplaced(shape) == [shape EXCEPT !.placed = FALSE, !.left = 0, !.width = 0]
TextShape(id, name, left, paras) ==
    [LiveShape(id, name, "text", left, 300) EXCEPT !.text_frame = TextFrame(paras)]
PictureShape(id, name, left) == LiveShape(id, name, "picture", left, 200)
GroupShape(id, name, left, children) ==
    [LiveShape(id, name, "group", left, 400) EXCEPT !.shapes = children]
TableShape(id, name, left, rows) ==
    [LiveShape(id, name, "table", left, 500) EXCEPT !.rows = rows]
ChartShape(id, name, left, chart) ==
    [LiveShape(id, name, "chart", left, 500) EXCEPT !.chart = <<chart>>]

AxisNames == {"category", "value", "series"}

LiveChart(has_title, title, titled_axes, series) ==
    [has_title |-> has_title,
     title |-> TextFrame(<<PlainPara(<<title>>)>>),
     axes |-> [a \in AxisNames |->
                 [has_title |-> a \in titled_axes,
                  title |-> TextFrame(<<PlainPara(<<a>>)>>)]],
     series |-> series,
     categories |-> <<"q1", "q2">>]
LiveSeries(name, values) ==
    [name |-> name, values |-> values,
     labels |-> [i \in 1..Len(values) |-> TextFrame(<<PlainPara(<<"">>)>>)]]

LiveSlide(shapes) ==
    [shapes |-> shapes, has_notes_slide |-> FALSE, notes |-> TextFrame(<<PlainPara(<<"">>)>>)]

\* the translated tree: runs, paragraphs, elements, slides
JsonRun(t) == [text |-> t, bold |-> "none", italic |-> "none", font_size |-> 0]
JsonPara(ts) == [runs |-> [i \in 1..Len(ts) |-> JsonRun(ts[i])]]
JsonElement(id, name, ty, paras) ==
    [shape_id |-> id, name |-> name, element_type |-> ty, paragraphs |-> paras,
     paragraphs_null |-> FALSE, table_data |-> <<>>, chart_data |-> <<>>]
JsonCell(r, c, paras) == [row |-> r, column |-> c, paragraphs |-> paras]
JsonChart(title, axis_titles, data_values, series_names) ==
    [title |-> title, axis_titles |-> axis_titles, data_values |-> data_values,
     series_names |-> series_names, categories |-> <<"#q1", "#q2">>,
     series |-> [i \in 1..Len(series_names) |->
                    [name |-> series_names[i], values |-> <<1, 2>>]]]
JsonSlide(elements, notes) == [elements |-> elements, speaker_notes |-> notes]

\* the live slides the model starts from
LiveSlideKinds == {"plain", "grouped", "data"}
LiveSlideOf(kind) ==
    CASE kind = "plain" ->
           LiveSlide(<<TextShape(2, "Title", 100,
                          <<LivePara(<<LiveRun("a", [NoFormat EXCEPT !.color = "red"]),
                                       LiveRun("b", NoFormat)>>),
                            PlainPara(<<"c">>)>>),
                       PictureShape(3, "Pic", 500)>>)
      [] kind = "grouped" ->
           LiveSlide(<<GroupShape(4, "Grp", 0,
                          <<TextShape(5, "Inner", 50, <<PlainPara(<<"c">>)>>)>>),
                       TextShape(2, "Title", 600, <<PlainPara(<<"a">>)>>),
                       Unplaced(TextShape(11, "Sub", 0, <<PlainPara(<<"s">>)>>))>>)
      [] kind = "data" ->
           LiveSlide(<<TableShape(6, "Tab", 100,
                          <<<<TextFrame(<<PlainPara(<<"h1">>)>>),
                              TextFrame(<<PlainPara(<<"h2">>), PlainPara(<<"h3">>)>>)>>,
                            <<TextFrame(<<PlainPara(<<"h4">>)>>),
                              TextFrame(<<PlainPara(<<"h5">>)>>)>>>>),
                       ChartShape(7, "Cht", 400,
                          LiveChart(TRUE, "sales", {"category"},
                                    <<LiveSeries("s1", <<1, 2>>)>>))>>)

\* the translated slides the model starts from; "strangers" opens with an
\* element whose shape_id no live shape has, named and placed like a live
\* shape, and goes on with an element whose paragraphs are null
JsonSlideKinds == {"match", "strangers", "data"}
JsonSlideOf(kind) ==
    CASE kind = "match" ->
           JsonSlide(<<JsonElement(2, "Title", "TextBox",
                          <<JsonPara(<<"#a", "#b">>), JsonPara(<<"#c">>)>>),
                       JsonElement(5, "Inner", "AutoShape",
                          <<JsonPara(<<"#c", "#d">>), JsonPara(<<>>)>>),
                       JsonElement(3, "Pic", "Picture", <<>>)>>, <<>>)
      [] kind = "strangers" ->
           JsonSlide(<<JsonElement(9, "Title", "TextBox", <<JsonPara(<<"#z">>)>>),
                       JsonElement(2, "Other", "AutoShape",
                          <<JsonPara(<<"#a">>), JsonPara(<<>>)>>),
                       JsonElement(8, "Pic", "Table", <<>>),
                       [JsonElement(2, "Title", "TextBox", <<>>) EXCEPT
                          !.paragraphs_null = TRUE],
                       JsonElement(3, "Pic", "TextBox", <<JsonPara(<<"#p">>)>>),
                       JsonElement(5, "Inner", "TextBox", <<>>)>>,
                     <<[text |-> "#notes"]>>)
      [] kind = "data" ->
           JsonSlide(<<[JsonElement(6, "Tab", "Table", <<>>) EXCEPT
                          !.table_data = <<[cells |->
                              <<JsonCell(<<0>>, <<1>>, <<JsonPara(<<"#h2">>)>>),
                                JsonCell(<<3>>, <<0>>, <<JsonPara(<<"#x">>)>>),
                                JsonCell(<<>>, <<0>>, <<JsonPara(<<"#y">>)>>),
                                JsonCell(<<-1>>, <<0>>, <<JsonPara(<<"#z">>)>>),
                                JsonCell(<<1>>, <<1>>, <<JsonPara(<<"#h5">>)>>)>>]>>],
                       [JsonElement(7, "Cht", "Chart", <<>>) EXCEPT
                          !.chart_data = <<JsonChart("#sales",
                              [a \in {"category", "value"} |-> "#axis"],
                              <<[series_name |-> "#s1", values |-> <<1, 2>>,
                                 data_labels |-> <<[point_index |-> 1, text |-> "#l"],
                                                   [point_index |-> 5, text |-> "#m"]>>]>>,
                              <<"#n1">>)>>],
                       [JsonElement(12, "Tab", "Table", <<>>) EXCEPT
                          !.table_data = <<[cells |->
                              <<JsonCell(<<0>>, <<0>>, <<JsonPara(<<"#w">>)>>)>>]>>]>>,
                     <<[text |-> ""]>>)

SeqsOfKinds(S, n) == UNION {[1..k -> S] : k \in 0..n}

----------------------------------------------------------------------------
(* PPTXReassembler: the pieces of the code *)

NoStats ==
    [slides_processed |-> 0, elements_updated |-> 0, text_runs_updated |-> 0,
     tables_updated |-> 0, charts_updated |-> 0, notes_updated |-> 0,
     rtl_paragraphs_set |-> 0, auto_shrink_enabled |-> 0, shapes_mirrored |-> 0]

Bump(stats, field, n) == [stats EXCEPT ![field] = @ + n]

\* the result of a step that mutates a part of the document and the counters
Got(v, stats) == [v |-> v, stats |-> stats]

\* search_shapes: the path (indices from the slide down) of the first shape
\* with this shape_id, groups entered when `recursive`; <<>> is None
RECURSIVE SearchShapes(_, _, _, _)
SearchShapes(shapes, shape_id, i, recursive) ==
    IF i > Len(shapes) THEN <<>>
    ELSE IF shapes[i].shape_id = shape_id THEN <<i>>
    ELSE LET found == IF recursive /\ shapes[i].kind = "group"
                      THEN SearchShapes(shapes[i].shapes, shape_id, 1, recursive)
                      ELSE <<>>
         IN IF found # <<>> THEN <<i>> \o found
            ELSE SearchShapes(shapes, shape_id, i + 1, recursive)

\* a lookup that takes the shape standing where the element stands
FindShapeByPosition(slide, element, k, recursive) ==
    IF k <= Len(slide.shapes) THEN <<k>> ELSE <<>>

\* find_shape_by_id for element number k of the translated slide
FindShapeById(slide, element, k, recursive) ==
    SearchShapes(slide.shapes, element.shape_id, 1, recursive)

RECURSIVE ShapeAt(_, _)
ShapeAt(shapes, path) ==
    IF Len(path) = 1 THEN shapes[path[1]]
    ELSE ShapeAt(shapes[path[1]].shapes, Tail(path))

RECURSIVE WithShapeAt(_, _, _)
WithShapeAt(shapes, path, shape) ==
    IF Len(path) = 1 THEN [shapes EXCEPT ![path[1]] = shape]
    ELSE [shapes EXCEPT ![path[1]] =
             [@ EXCEPT !.shapes = WithShapeAt(@, Tail(path), shape)]]

\* a mirror about the slide's centre that forgets the shape's width
MirrorLeftEdgeOnly(shape, slide_width) ==
    IF ~shape.placed THEN shape
    ELSE [shape EXCEPT !.left = slide_width - shape.left]

\* mirror_shape_horizontal under is_rtl: None + None raises inside the try,
\* the shape stays as it is and is not counted
MirrorShapeHorizontal(shape, slide_width) ==
    IF ~shape.placed THEN shape
    ELSE [shape EXCEPT !.left = slide_width - (shape.left + shape.width)]

\* mirror_slide_layout: top-level shapes only
MirrorSlideLayout(slide, slide_width, is_rtl, stats) ==
    IF ~is_rtl THEN Got(slide, stats)
    ELSE Got([slide EXCEPT !.shapes =
                  [i \in 1..Len(slide.shapes) |->
                      MirrorShapeHorizontal(slide.shapes[i], slide_width)]],
             Bump(stats, "shapes_mirrored",
                  Cardinality({i \in 1..Len(slide.shapes) : slide.shapes[i].placed})))

\* the three reassemblers of the repository: reassembler.py,
\* ppt-translation-pipeline.py and ppt_translation_assembly_pipeline.py
Variants == {"reassembler", "pipeline", "assembly"}

\* set_paragraph_rtl of ppt_translation_assembly_pipeline.py: the direction only
SetParagraphRtl(paragraph, stats) ==
    Got([paragraph EXCEPT !.rtl = "1"], Bump(stats, "rtl_paragraphs_set", 1))

SetRtlIfNeeded(paragraph, is_rtl, stats) ==
    IF ~is_rtl THEN Got(paragraph, stats)
    ELSE Got([paragraph EXCEPT !.rtl = "1", !.algn = "r"],
             Bump(stats, "rtl_paragraphs_set", 1))

EnableAutoShrink(text_frame, stats) ==
    Got([text_frame EXCEPT !.word_wrap = TRUE, !.auto_size = "fit"],
        Bump(stats, "auto_shrink_enabled", 1))

\* enable_auto_shrink of ppt_translation_assembly_pipeline.py: auto_size only
EnableAutoShrinkOnly(text_frame, stats) ==
    Got([text_frame EXCEPT !.auto_size = "fit"], Bump(stats, "auto_shrink_enabled", 1))

AutoShrink(variant, text_frame, stats) ==
    IF variant = "assembly" THEN EnableAutoShrinkOnly(text_frame, stats)
    ELSE EnableAutoShrink(text_frame, stats)

\* a run appended with everything the JSON run says, colour included
NewRunCopyingAll(json_run) ==
    LiveRun(json_run.text, [bold |-> json_run.bold, italic |-> json_run.italic,
                            font_size |-> json_run.font_size,
                            color |-> json_run.color])

\* the run appended by the rebuild: text, and bold, italic, size from the JSON
NewRunFrom(json_run) ==
    LiveRun(json_run.text, [NoFormat EXCEPT !.bold = json_run.bold,
                                            !.italic = json_run.italic,
                                            !.font_size = json_run.font_size])

\* update_text_runs without its in-place branch: every call rebuilds the runs
UpdateTextRunsRebuilding(paragraph, translated_runs, is_rtl, stats) ==
    LET N == Len(paragraph.runs)
        M == Len(translated_runs)
        first == IF N = 0 THEN LiveRun("", NoFormat) ELSE paragraph.runs[1]
        runs == <<IF M > 0 THEN [first EXCEPT !.text = translated_runs[1].text]
                  ELSE first>>
                \o [i \in 1..(M - 1) |-> NewRunFrom(translated_runs[i + 1])]
    IN SetRtlIfNeeded([paragraph EXCEPT !.runs = runs], is_rtl,
                      Bump(stats, "text_runs_updated", M))

\* an update_text_runs that counts the first run of a rebuilt paragraph
\* whether or not a translated run was written into it
UpdateTextRunsCountingFirst(paragraph, translated_runs, is_rtl, stats) ==
    LET N == Len(paragraph.runs)
        M == Len(translated_runs)
        first == IF N = 0 THEN LiveRun("", NoFormat) ELSE paragraph.runs[1]
        runs == IF N = M
                THEN [i \in 1..N |-> [paragraph.runs[i] EXCEPT !.text = translated_runs[i].text]]
                ELSE <<IF M > 0 THEN [first EXCEPT !.text = translated_runs[1].text]
                       ELSE first>>
                     \o [i \in 1..(M - 1) |-> NewRunFrom(translated_runs[i + 1])]
        updated == IF N = M THEN N ELSE 1 + Len(SubSeq(translated_runs, 2, M))
    IN SetRtlIfNeeded([paragraph EXCEPT !.runs = runs], is_rtl,
                      Bump(stats, "text_runs_updated", updated))

\* `updated` is the number of `self.stats["text_runs_updated"] += 1` executed:
\* one per zipped pair, or one for the first run when there is a translated
\* run for it and one per run of translated_runs[1:]
UpdateTextRuns(paragraph, translated_runs, is_rtl, stats) ==
    LET N == Len(paragraph.runs)
        M == Len(translated_runs)
        first == IF N = 0 THEN LiveRun("", NoFormat) ELSE paragraph.runs[1]
        runs == IF N = M
                THEN [i \in 1..N |-> [paragraph.runs[i] EXCEPT !.text = translated_runs[i].text]]
                ELSE <<IF M > 0 THEN [first EXCEPT !.text = translated_runs[1].text]
                       ELSE first>>
                     \o [i \in 1..(M - 1) |-> NewRunFrom(translated_runs[i + 1])]
        updated == IF N = M THEN N
                   ELSE (IF M > 0 THEN 1 ELSE 0) + Len(SubSeq(translated_runs, 2, M))
    IN SetRtlIfNeeded([paragraph EXCEPT !.runs = runs], is_rtl,
                      Bump(stats, "text_runs_updated", updated))

\* update_text_runs as the paragraph loops call it: in
\* ppt_translation_assembly_pipeline.py update_text_runs sets no direction and
\* the caller follows it with set_paragraph_rtl
UpdateParagraphRuns(variant, paragraph, translated_runs, is_rtl, stats) ==
    IF variant = "assembly"
    THEN Then(UpdateTextRuns(paragraph, translated_runs, FALSE, stats),
              LAMBDA u : IF is_rtl THEN SetParagraphRtl(u.v, u.stats) ELSE u)
    ELSE UpdateTextRuns(paragraph, translated_runs, is_rtl, stats)

\* the paragraph loop of update_text_frame: paragraph idx is updated, or
\* added and filled
RECURSIVE UpdateParagraphs(_, _, _, _, _, _, _)
UpdateParagraphs(variant, existing, translated_paragraphs, idx, is_rtl, acc, stats) ==
    IF idx > Len(translated_paragraphs) THEN Got(acc, stats)
    ELSE Then(UpdateParagraphRuns(variant,
                                  IF idx <= Len(existing) THEN existing[idx]
                                  ELSE LivePara(<<>>),
                                  translated_paragraphs[idx].runs, is_rtl, stats),
              LAMBDA u : UpdateParagraphs(variant, existing, translated_paragraphs, idx + 1,
                                          is_rtl, Append(acc, u.v), u.stats))

\* update_text_frame: the paragraphs beyond the translated ones are removed
UpdateTextFrame(variant, shape, translated_element, is_rtl, stats) ==
    IF shape.kind # "text" THEN Got(shape, stats)
    ELSE Then(UpdateParagraphs(variant, shape.text_frame.paragraphs,
                               translated_element.paragraphs, 1, is_rtl, <<>>, stats),
              LAMBDA u :
                Then(AutoShrink(variant, [shape.text_frame EXCEPT !.paragraphs = u.v],
                                u.stats),
                     LAMBDA s : Got([shape EXCEPT !.text_frame = s.v], s.stats)))

\* the paragraph loop of update_table: only paragraphs the cell has
RECURSIVE UpdateCellParagraphs(_, _, _, _, _, _)
UpdateCellParagraphs(variant, paras, translated_paragraphs, idx, is_rtl, stats) ==
    IF idx > Len(translated_paragraphs) THEN Got(paras, stats)
    ELSE IF idx > Len(paras)
         THEN UpdateCellParagraphs(variant, paras, translated_paragraphs, idx + 1, is_rtl,
                                   stats)
         ELSE Then(UpdateParagraphRuns(variant, paras[idx], translated_paragraphs[idx].runs,
                                       is_rtl, stats),
                   LAMBDA u : UpdateCellParagraphs(variant, [paras EXCEPT ![idx] = u.v],
                                  translated_paragraphs, idx + 1, is_rtl, u.stats))

\* the 1-based place of list[idx] in a Python list of n items, 0 when it
\* raises IndexError: a negative idx counts from the end
ListIndex(idx, n) ==
    IF idx >= 0 THEN (IF idx < n THEN idx + 1 ELSE 0)
    ELSE (IF 0 - idx <= n THEN n + idx + 1 ELSE 0)

\* one cell of update_table: table.cell(row, col) is
\* tr_lst[row].tc_lst[col]; when it raises the table is left as it is
UpdateCell(variant, rows, cell_data, is_rtl, stats) ==
    LET addressed == cell_data.row # <<>> /\ cell_data.column # <<>>
        r == IF addressed THEN ListIndex(cell_data.row[1], Len(rows)) ELSE 0
        c == IF addressed /\ r > 0 THEN ListIndex(cell_data.column[1], Len(rows[r])) ELSE 0
        live == addressed /\ r > 0 /\ c > 0
    IN IF live /\ cell_data.paragraphs # <<>>
       THEN Then(UpdateCellParagraphs(variant, rows[r][c].paragraphs, cell_data.paragraphs,
                                      1, is_rtl, stats),
                 LAMBDA u :
                   Then(AutoShrink(variant, [rows[r][c] EXCEPT !.paragraphs = u.v], u.stats),
                        LAMBDA s : Got([rows EXCEPT ![r][c] = s.v], s.stats)))
       ELSE Got(rows, stats)

\* the cell loop of update_table
RECURSIVE UpdateCells(_, _, _, _, _, _)
UpdateCells(variant, rows, translated_cells, k, is_rtl, stats) ==
    IF k > Len(translated_cells) THEN Got(rows, stats)
    ELSE Then(UpdateCell(variant, rows, translated_cells[k], is_rtl, stats),
              LAMBDA u : UpdateCells(variant, u.v, translated_cells, k + 1, is_rtl, u.stats))

UpdateTable(variant, shape, translated_table_data, is_rtl, stats) ==
    IF shape.kind # "table" THEN Got(shape, stats)
    ELSE Then(UpdateCells(variant, shape.rows, translated_table_data.cells, 1, is_rtl, stats),
              LAMBDA u : Got([shape EXCEPT !.rows = u.v], Bump(u.stats, "tables_updated", 1)))

\* text_frame.text = text: one paragraph, one run
SetText(text_frame, text) ==
    [text_frame EXCEPT !.paragraphs =
        <<[(IF @ = <<>> THEN LivePara(<<>>) ELSE @[1]) EXCEPT
              !.runs = <<LiveRun(text, NoFormat)>>]>>]

\* `if self.is_rtl and text_frame.paragraphs: for para in ...: set_rtl_if_needed`
RECURSIVE SetRtlOnAll(_, _, _, _)
SetRtlOnAll(text_frame, idx, is_rtl, stats) ==
    IF ~is_rtl \/ idx > Len(text_frame.paragraphs) THEN Got(text_frame, stats)
    ELSE Then(SetRtlIfNeeded(text_frame.paragraphs[idx], is_rtl, stats),
              LAMBDA u : SetRtlOnAll([text_frame EXCEPT !.paragraphs[idx] = u.v], idx + 1,
                                     is_rtl, u.stats))

\* the title of update_chart: text, auto-shrink, then the direction
UpdateChartTitle(chart, translated_chart_data, is_rtl, stats) ==
    IF translated_chart_data.title # "" /\ chart.has_title
    THEN Then(EnableAutoShrink(SetText(chart.title, translated_chart_data.title), stats),
              LAMBDA s :
                Then(SetRtlOnAll(s.v, 1, is_rtl, s.stats),
                     LAMBDA d : Got([chart EXCEPT !.title = d.v], d.stats)))
    ELSE Got(chart, stats)

\* the axis titles of update_chart, in the order category, value, series
RECURSIVE UpdateAxisTitles(_, _, _, _, _)
UpdateAxisTitles(chart, axis_titles, todo, is_rtl, stats) ==
    IF todo = <<>> THEN Got(chart, stats)
    ELSE IF Head(todo) \in DOMAIN axis_titles /\ chart.axes[Head(todo)].has_title
         THEN Then(SetRtlOnAll(SetText(chart.axes[Head(todo)].title,
                                       axis_titles[Head(todo)]), 1, is_rtl, stats),
                   LAMBDA d : UpdateAxisTitles([chart EXCEPT !.axes[Head(todo)].title = d.v],
                                               axis_titles, Tail(todo), is_rtl, d.stats))
         ELSE UpdateAxisTitles(chart, axis_titles, Tail(todo), is_rtl, stats)

\* the 1-based place of series.points[idx] among n points, 0 when it raises:
\* the points collection rejects an index below 0 or past the end
PointIndex(idx, n) == IF idx >= 0 /\ idx < n THEN idx + 1 ELSE 0

\* the data labels of one series: series.points[point_index] raises out of
\* range, and the loop goes on with the next label
RECURSIVE UpdateDataLabels(_, _, _, _, _)
UpdateDataLabels(labels, data_labels, k, is_rtl, stats) ==
    IF k > Len(data_labels) THEN Got(labels, stats)
    ELSE IF data_labels[k].text # "" /\ PointIndex(data_labels[k].point_index, Len(labels)) > 0
         THEN Then(SetRtlOnAll(SetText(labels[data_labels[k].point_index + 1],
                                       data_labels[k].text), 1, is_rtl, stats),
                   LAMBDA d : UpdateDataLabels(
                                  [labels EXCEPT ![data_labels[k].point_index + 1] = d.v],
                                  data_labels, k + 1, is_rtl, d.stats))
         ELSE UpdateDataLabels(labels, data_labels, k + 1, is_rtl, stats)

\* the series loop of update_chart: names and data labels from data_values.
\* Whether `series.name = ...` is accepted is the chart library's business
\* (`writable`); when it raises, the `except` skips the labels of that series.
RECURSIVE UpdateSeries(_, _, _, _, _, _)
UpdateSeries(series, translated_data_values, idx, is_rtl, writable, stats) ==
    IF idx > Len(series) \/ idx > Len(translated_data_values) THEN Got(series, stats)
    ELSE IF translated_data_values[idx].series_name # "" /\ ~writable
         THEN UpdateSeries(series, translated_data_values, idx + 1, is_rtl, writable, stats)
         ELSE LET named == IF translated_data_values[idx].series_name # ""
                           THEN [series[idx] EXCEPT
                                    !.name = translated_data_values[idx].series_name]
                           ELSE series[idx]
              IN Then(UpdateDataLabels(named.labels,
                                       translated_data_values[idx].data_labels, 1, is_rtl,
                                       stats),
                      LAMBDA l : UpdateSeries(
                                     [series EXCEPT ![idx] = [named EXCEPT !.labels = l.v]],
                                     translated_data_values, idx + 1, is_rtl, writable,
                                     l.stats))

\* names from the series_names list
UpdateSeriesNames(series, translated_series_names, writable) ==
    [idx \in 1..Len(series) |->
        IF idx <= Len(translated_series_names) /\ writable
        THEN [series[idx] EXCEPT !.name = translated_series_names[idx]]
        ELSE series[idx]]

\* update_chart of reassembler.py: title, axis titles, series names and data
\* labels; categories and values are never written
UpdateChartFull(shape, translated_chart_data, is_rtl, writable, stats) ==
    IF shape.kind # "chart" THEN Got(shape, stats)
    ELSE Then(UpdateChartTitle(shape.chart[1], translated_chart_data, is_rtl, stats),
           LAMBDA t :
             Then(UpdateAxisTitles(t.v, translated_chart_data.axis_titles,
                                   <<"category", "value", "series">>, is_rtl, t.stats),
               LAMBDA a :
                 Then(UpdateSeries(a.v.series, translated_chart_data.data_values, 1, is_rtl,
                                   writable, a.stats),
                   LAMBDA s :
                     Got([shape EXCEPT !.chart = <<[a.v EXCEPT !.series =
                             IF translated_chart_data.series_names # <<>>
                                /\ translated_chart_data.data_values = <<>>
                             THEN UpdateSeriesNames(s.v, translated_chart_data.series_names,
                                                    writable)
                             ELSE s.v]>>],
                         Bump(s.stats, "charts_updated", 1)))))

\* update_chart of ppt-translation-pipeline.py: title and series_names only
UpdateChartTitles(shape, translated_chart_data, writable, stats) ==
    IF shape.kind # "chart" THEN Got(shape, stats)
    ELSE Then(IF translated_chart_data.title # "" /\ shape.chart[1].has_title
              THEN EnableAutoShrink(SetText(shape.chart[1].title,
                                            translated_chart_data.title), stats)
              ELSE Got(shape.chart[1].title, stats),
              LAMBDA t :
                Got([shape EXCEPT !.chart = <<[@[1] EXCEPT
                        !.title = t.v,
                        !.series = UpdateSeriesNames(@, translated_chart_data.series_names,
                                                     writable)]>>],
                    Bump(t.stats, "charts_updated", 1)))

\* update_chart of ppt_translation_assembly_pipeline.py: the title, and the
\* names of the `series` list; a refused `series.name = ...` ends the loop
UpdateChartSeries(shape, translated_chart_data, writable, stats) ==
    IF shape.kind # "chart" THEN Got(shape, stats)
    ELSE Got([shape EXCEPT !.chart = <<[@[1] EXCEPT
                 !.title = IF translated_chart_data.title # "" /\ shape.chart[1].has_title
                           THEN SetText(@, translated_chart_data.title) ELSE @,
                 !.series = [idx \in 1..Len(@) |->
                               IF idx <= Len(translated_chart_data.series) /\ writable
                                  /\ translated_chart_data.series[idx].name # ""
                               THEN [@[idx] EXCEPT
                                        !.name = translated_chart_data.series[idx].name]
                               ELSE @[idx]]]>>],
             Bump(stats, "charts_updated", 1))

UpdateChart(variant, shape, translated_chart_data, is_rtl, writable, stats) ==
    CASE variant = "reassembler" ->
           UpdateChartFull(shape, translated_chart_data, is_rtl, writable, stats)
      [] variant = "pipeline" ->
           UpdateChartTitles(shape, translated_chart_data, writable, stats)
      [] OTHER -> UpdateChartSeries(shape, translated_chart_data, writable, stats)

\* `for paragraph in notes_text_frame.paragraphs: set_paragraph_rtl(paragraph)`
RECURSIVE SetParagraphRtlOnAll(_, _, _, _)
SetParagraphRtlOnAll(text_frame, idx, is_rtl, stats) ==
    IF ~is_rtl \/ idx > Len(text_frame.paragraphs) THEN Got(text_frame, stats)
    ELSE Then(SetParagraphRtl(text_frame.paragraphs[idx], stats),
              LAMBDA u : SetParagraphRtlOnAll([text_frame EXCEPT !.paragraphs[idx] = u.v],
                                              idx + 1, is_rtl, u.stats))

\* update_speaker_notes: the notes slide is created when the slide has none;
\* ppt_translation_assembly_pipeline.py writes an empty text too
UpdateSpeakerNotes(variant, slide, translated_notes, is_rtl, stats) ==
    IF translated_notes = <<>> THEN Got(slide, stats)
    ELSE IF variant # "assembly" /\ translated_notes[1].text = "" THEN Got(slide, stats)
    ELSE Then(IF variant = "assembly"
              THEN SetParagraphRtlOnAll(SetText(slide.notes, translated_notes[1].text), 1,
                                        is_rtl, stats)
              ELSE SetRtlOnAll(SetText(slide.notes, translated_notes[1].text), 1, is_rtl,
                               stats),
              LAMBDA d :
                Then(AutoShrink(variant, d.v, d.stats),
                     LAMBDA s : Got([slide EXCEPT !.has_notes_slide = TRUE, !.notes = s.v],
                                    Bump(s.stats, "notes_updated", 1))))

\* the outcome of one element of update_slide
Outcome(slide, stats, what) == [v |-> slide, stats |-> stats, what |-> what]

\* what update_slide does with the shape found for an element
UpdateShape(variant, shape, element, is_rtl, writable, stats) ==
    CASE element.element_type \in {"TextBox", "AutoShape"} ->
           IF shape.kind = "text" /\ element.paragraphs_null
           THEN Outcome(shape, stats, "Failed")
           ELSE Then(UpdateTextFrame(variant, shape, element, is_rtl, stats),
                     LAMBDA u : Outcome(u.v, Bump(u.stats, "elements_updated", 1), "Updated"))
      [] element.element_type = "Table" /\ element.table_data # <<>> ->
           Then(UpdateTable(variant, shape, element.table_data[1], is_rtl, stats),
                LAMBDA u : Outcome(u.v, Bump(u.stats, "elements_updated", 1), "Updated"))
      [] element.element_type = "Chart" /\ element.chart_data # <<>> ->
           Then(UpdateChart(variant, shape, element.chart_data[1], is_rtl, writable, stats),
                LAMBDA u : Outcome(u.v, Bump(u.stats, "elements_updated", 1), "Updated"))
      [] OTHER -> Outcome(shape, stats, "Untouched")

\* the body of the element loop of update_slide for element number k
UpdateElement(variant, slide, element, k, is_rtl, writable, stats) ==
    Then(FindShapeById(slide, element, k, variant = "reassembler"),
         LAMBDA path :
           IF path = <<>> THEN Outcome(slide, stats, "Skipped")
           ELSE Then(UpdateShape(variant, ShapeAt(slide.shapes, path), element, is_rtl,
                                 writable, stats),
                     LAMBDA u : Outcome([slide EXCEPT !.shapes = WithShapeAt(@, path, u.v)],
                                        u.stats, u.what)))

\* an element loop that an exception in one element ends
RECURSIVE UpdateElementsUntilFailure(_, _, _, _, _, _, _, _)
UpdateElementsUntilFailure(variant, slide, elements, k, is_rtl, writable, stats, log) ==
    IF k > Len(elements) THEN Outcome(slide, stats, log)
    ELSE Then(UpdateElement(variant, slide, elements[k], k, is_rtl, writable, stats),
              LAMBDA o : IF o.what = "Failed"
                         THEN Outcome(o.v, o.stats, Append(log, o.what))
                         ELSE UpdateElementsUntilFailure(variant, o.v, elements, k + 1,
                                                         is_rtl, writable, o.stats,
                                                         Append(log, o.what)))

RECURSIVE UpdateElements(_, _, _, _, _, _, _, _)
UpdateElements(variant, slide, elements, k, is_rtl, writable, stats, log) ==
    IF k > Len(elements) THEN Outcome(slide, stats, log)
    ELSE Then(UpdateElement(variant, slide, elements[k], k, is_rtl, writable, stats),
              LAMBDA o : UpdateElements(variant, o.v, elements, k + 1, is_rtl, writable,
                                        o.stats, Append(log, o.what)))

\* update_slide after mirror_slide_layout: elements, speaker notes,
\* slides_processed
UpdateSlideContent(variant, slide, translated_slide, is_rtl, writable, stats) ==
    Then(UpdateElements(variant, slide, translated_slide.elements, 1, is_rtl, writable,
                        stats, <<>>),
      LAMBDA e :
        Then(UpdateSpeakerNotes(variant, e.v, translated_slide.speaker_notes, is_rtl,
                                e.stats),
          LAMBDA n : Outcome(n.v, Bump(n.stats, "slides_processed", 1), e.what)))

\* update_slide: mirror, then elements, speaker notes, slides_processed
UpdateSlide(variant, slide, translated_slide, slide_width, is_rtl, writable, stats) ==
    Then(MirrorSlideLayout(slide, slide_width, is_rtl, stats),
      LAMBDA m :
        UpdateSlideContent(variant, m.v, translated_slide, is_rtl, writable, m.stats))

\* num_slides of reassemble
NumSlidesMax(ppt_count, json_count) == IF ppt_count > json_count THEN ppt_count ELSE json_count

NumSlides(ppt_count, json_count) == Min(ppt_count, json_count)

----------------------------------------------------------------------------
(* PPTXReassembler.reassemble: the steps *)

ReasmInit ==
    /\ a_variant \in Variants
    /\ a_rtl \in BOOLEAN
    /\ a_live \in {[i \in 1..Len(ks) |-> LiveSlideOf(ks[i])] :
                      ks \in SeqsOfKinds(LiveSlideKinds, MaxSlides)}
    /\ a_live0 = a_live
    /\ a_json \in {[i \in 1..Len(ks) |-> JsonSlideOf(ks[i])] :
                      ks \in SeqsOfKinds(JsonSlideKinds, MaxSlides)}
    /\ a_pc = "start"
    /\ a_idx = 0
    /\ a_num = 0
    /\ a_warned = FALSE
    /\ a_stats = NoStats
    /\ a_order = <<>>
    /\ a_log = <<>>
    /\ a_returned = <<>>

ReasmIdle ==
    /\ a_variant = "none"
    /\ a_rtl = FALSE
    /\ a_live = <<>>
    /\ a_live0 = <<>>
    /\ a_json = <<>>
    /\ a_pc = "idle"
    /\ a_idx = 0
    /\ a_num = 0
    /\ a_warned = FALSE
    /\ a_stats = NoStats
    /\ a_order = <<>>
    /\ a_log = <<>>
    /\ a_returned = <<>>

\* reassemble up to the loop: verify_slide_count (not in the pipeline) warns
\* and goes on, num_slides is the smaller count
ReassembleStart ==
    /\ a_pc = "start"
    /\ a_warned' = (a_variant # "pipeline" /\ Len(a_live) # Len(a_json))
    /\ a_num' = NumSlides(Len(a_live), Len(a_json))
    /\ a_idx' = 0
    /\ a_pc' = "loop"
    /\ UNCHANGED <<a_variant, a_rtl, a_live, a_live0, a_json, a_stats, a_order, a_log,
                   a_returned>>

\* one turn of `for slide_idx in range(num_slides)`, the head of
\* update_slide(slide_idx): an index past either list raises IndexError out of
\* reassemble, otherwise mirror_slide_layout runs
UpdateSlideBegin ==
    /\ a_pc = "loop" /\ a_idx < a_num
    /\ IF a_idx >= Len(a_live) \/ a_idx >= Len(a_json)
       THEN /\ a_pc' = "raised"
            /\ UNCHANGED <<a_live, a_stats>>
       ELSE \E m \in {MirrorSlideLayout(a_live[a_idx + 1], SlideWidth, a_rtl, a_stats)} :
              /\ a_live' = [a_live EXCEPT ![a_idx + 1] = m.v]
              /\ a_stats' = m.stats
              /\ a_pc' = "mirrored"
    /\ UNCHANGED <<a_variant, a_rtl, a_live0, a_json, a_num, a_warned, a_returned,
                   a_order, a_log, a_idx>>

\* the rest of update_slide(slide_idx): the element loop, the speaker notes,
\* slides_processed
UpdateSlideStep ==
    /\ a_pc = "mirrored"
    /\ \E writable \in BOOLEAN :
         \E o \in {UpdateSlideContent(a_variant, a_live[a_idx + 1], a_json[a_idx + 1],
                                     a_rtl, writable, a_stats)} :
            /\ a_live' = [a_live EXCEPT ![a_idx + 1] = o.v]
            /\ a_stats' = o.stats
            /\ a_order' = Append(a_order, a_idx)
            /\ a_log' = Append(a_log,
                   [outcomes |-> o.what,
                    elements_updated |-> o.stats.elements_updated
                                           - a_stats.elements_updated])
            /\ a_idx' = a_idx + 1
            /\ a_pc' = "loop"
    /\ UNCHANGED <<a_variant, a_rtl, a_live0, a_json, a_num, a_warned, a_returned>>

\* the loop is over: the presentation is saved and the counters are returned
ReassembleFinish ==
    /\ a_pc = "loop" /\ a_idx >= a_num
    /\ a_pc' = "done"
    /\ a_returned' = <<a_stats>>
    /\ UNCHANGED <<a_variant, a_rtl, a_live, a_live0, a_json, a_idx, a_num, a_warned,
                   a_stats, a_order, a_log>>

----------------------------------------------------------------------------
(* PPTXReassembler.update_text_runs on its own *)

\* a translated run as the extractor writes it: the formatting update_text_runs
\* reads, and a colour it does not read
FormattedJsonRun(t, bold, italic, font_size, color) ==
    [text |-> t, bold |-> bold, italic |-> italic, font_size |-> font_size,
     color |-> color]

LiveRunChoices ==
    {LiveRun("x", [bold |-> "yes", italic |-> "none", font_size |-> 18, color |-> "red"]),
     LiveRun("y", NoFormat)}

JsonRunChoices ==
    {FormattedJsonRun("#1", "none", "none", 0, "none"),
     FormattedJsonRun("#2", "yes", "no", 12, "blue")}

\* counters as they may stand when update_text_runs is called
StatsChoices == {NoStats, [NoStats EXCEPT !.text_runs_updated = 2, !.rtl_paragraphs_set = 1]}

RunsInit ==
    /\ u_paragraph \in {LivePara(rs) : rs \in SeqsOfKinds(LiveRunChoices, MaxLiveRuns)}
    /\ u_runs \in SeqsOfKinds(JsonRunChoices, MaxJsonRuns)
    /\ u_rtl \in BOOLEAN
    /\ u_pc = "call"
    /\ u_result = u_paragraph
    /\ u_stats0 \in StatsChoices
    /\ u_stats = u_stats0

RunsIdle ==
    /\ u_paragraph = LivePara(<<>>)
    /\ u_runs = <<>>
    /\ u_rtl = FALSE
    /\ u_pc = "idle"
    /\ u_result = LivePara(<<>>)
    /\ u_stats0 = NoStats
    /\ u_stats = NoStats

\* update_text_runs(paragraph, translated_runs)
UpdateTextRunsCall ==
    /\ u_pc = "call"
    /\ \E o \in {UpdateTextRuns(u_paragraph, u_runs, u_rtl, u_stats)} :
         /\ u_result' = o.v
         /\ u_stats' = o.stats
    /\ u_pc' = "done"
    /\ UNCHANGED <<u_paragraph, u_runs, u_rtl, u_stats0>>

----------------------------------------------------------------------------
(* PPTXExtractor, and the round trip of one slide *)

\* text_frame.text: the run texts of a paragraph joined, the paragraphs
\* separated by a line feed
RECURSIVE JoinRuns(_)
JoinRuns(runs) == IF runs = <<>> THEN "" ELSE Head(runs).text \o JoinRuns(Tail(runs))
RECURSIVE JoinParagraphs(_)
JoinParagraphs(paragraphs) ==
    IF paragraphs = <<>> THEN ""
    ELSE IF Len(paragraphs) = 1 THEN JoinRuns(paragraphs[1].runs)
    ELSE JoinRuns(paragraphs[1].runs) \o "\n" \o JoinParagraphs(Tail(paragraphs))
TextOf(text_frame) == JoinParagraphs(text_frame.paragraphs)

ExtractRunFormatting(run) ==
    FormattedJsonRun(run.text, run.font.bold, run.font.italic, run.font.font_size,
                     run.font.color)

\* the paragraphs list of extract_shape and extract_table: every paragraph,
\* every run
ExtractParagraphs(text_frame) ==
    [i \in 1..Len(text_frame.paragraphs) |->
        [runs |-> [j \in 1..Len(text_frame.paragraphs[i].runs) |->
                      ExtractRunFormatting(text_frame.paragraphs[i].runs[j])]]]

\* extract_table: the cells row by row
RECURSIVE ExtractRows(_, _)
ExtractRows(rows, r) ==
    IF r > Len(rows) THEN <<>>
    ELSE [c \in 1..Len(rows[r]) |-> JsonCell(<<r - 1>>, <<c - 1>>,
                                             ExtractParagraphs(rows[r][c]))]
         \o ExtractRows(rows, r + 1)
ExtractTable(shape) == [cells |-> ExtractRows(shape.rows, 1)]

\* the data labels of one series: the points whose label has a text
RECURSIVE ExtractDataLabels(_, _)
ExtractDataLabels(labels, k) ==
    IF k > Len(labels) THEN <<>>
    ELSE (IF TextOf(labels[k]) # ""
          THEN <<[point_index |-> k - 1, text |-> TextOf(labels[k])]>> ELSE <<>>)
         \o ExtractDataLabels(labels, k + 1)

\* extract_chart of extractor.py: title, axis titles, data_values with values
\* and data labels, series names, categories; it writes no `series` key
\* (<<>> is what chart_data.get("series", []) reads)
ExtractChart(shape) ==
    LET chart == shape.chart[1]
    IN [title |-> IF chart.has_title THEN TextOf(chart.title) ELSE "",
        axis_titles |-> [a \in {b \in AxisNames : chart.axes[b].has_title} |->
                            TextOf(chart.axes[a].title)],
        data_values |-> [i \in 1..Len(chart.series) |->
                            [series_name |-> chart.series[i].name,
                             values |-> chart.series[i].values,
                             data_labels |-> ExtractDataLabels(chart.series[i].labels, 1)]],
        series_names |-> [i \in 1..Len(chart.series) |-> chart.series[i].name],
        categories |-> chart.categories,
        series |-> <<>>]

\* extract_shape: the element of a shape that is not a group
ExtractShape(shape) ==
    CASE shape.kind = "text" ->
           JsonElement(shape.shape_id, shape.name, "TextBox",
                       ExtractParagraphs(shape.text_frame))
      [] shape.kind = "table" ->
           [JsonElement(shape.shape_id, shape.name, "Table", <<>>) EXCEPT
               !.table_data = <<ExtractTable(shape)>>]
      [] shape.kind = "chart" ->
           [JsonElement(shape.shape_id, shape.name, "Chart", <<>>) EXCEPT
               !.chart_data = <<ExtractChart(shape)>>]
      [] OTHER -> JsonElement(shape.shape_id, shape.name, "Picture", <<>>)

\* the shape loop of extract_slide, with extract_grouped_shapes: a group
\* gives the elements of its members, not one of its own
RECURSIVE ExtractElements(_)
ExtractElements(shapes) ==
    IF shapes = <<>> THEN <<>>
    ELSE (IF Head(shapes).kind = "group" THEN ExtractElements(Head(shapes).shapes)
          ELSE <<ExtractShape(Head(shapes))>>)
         \o ExtractElements(Tail(shapes))

\* str.strip() of a live text leaves nothing: every character of it is one
\* str.isspace() accepts. Of those, the ones a string of this module can hold
\* (code points up to U+00FF): space, \t, \n, \r, \f, vertical tab (a line
\* break in python-pptx text), U+001C..U+001F, U+0085 and the no-break space
\* U+00A0; the others (U+1680, U+2000..U+200A, U+2028, U+2029, U+202F, U+205F,
\* U+3000) are outside that range
StripsToEmpty(text) ==
    \A i \in 1..Len(text) :
        SubSeq(text, i, i) \in {" ", "\t", "\n", "\r", "\f", "", "", "", "", "", "", " "}

\* extract_slide: speaker notes only from a notes slide whose text is not
\* blank (`if notes_frame.text.strip()`)
ExtractSlide(slide) ==
    JsonSlide(ExtractElements(slide.shapes),
              IF slide.has_notes_slide /\ ~StripsToEmpty(TextOf(slide.notes))
              THEN <<[text |-> TextOf(slide.notes)]>> ELSE <<>>)

\* what a call gives its caller: a value, or an exception
Returned(v) == [raised |-> FALSE, v |-> v]
RaisedError == [raised |-> TRUE, v |-> <<>>]

\* translate_slide when translate_batch(xs) = xs: every text is replaced by
\* itself. For a TextBox or AutoShape whose "paragraphs" is null,
\* translate_paragraphs gives the null back and translate_text_element
\* iterates over it (`for para in new_element["paragraphs"]`): TypeError
TranslateWithIdentity(json_slide) ==
    IF \E k \in 1..Len(json_slide.elements) :
          /\ json_slide.elements[k].element_type \in {"TextBox", "AutoShape"}
          /\ json_slide.elements[k].paragraphs_null
    THEN RaisedError
    ELSE Returned(json_slide)

AutoSizes == {"none", "fit", "shape"}

NotesKinds == {"none", "formatted", "blank"}

\* a slide to send round: the top-level text boxes with the given text frame
\* settings, and speaker notes: none, two runs of which the first is bold, or
\* a notes slide whose only text is a no-break space
RoundTripSlide(kind, word_wrap, auto_size, notes_kind) ==
    LET base == LiveSlideOf(kind)
        framed == [base EXCEPT !.shapes =
                      [j \in 1..Len(base.shapes) |->
                          IF base.shapes[j].kind = "text"
                          THEN [base.shapes[j] EXCEPT !.text_frame.word_wrap = word_wrap,
                                                      !.text_frame.auto_size = auto_size]
                          ELSE base.shapes[j]]]
        runs == IF notes_kind = "formatted"
                THEN <<LiveRun("n", [NoFormat EXCEPT !.bold = "yes"]),
                       LiveRun("m", NoFormat)>>
                ELSE <<LiveRun(" ", NoFormat)>>
    IN IF notes_kind # "none"
       THEN [framed EXCEPT
                !.has_notes_slide = TRUE,
                !.notes = [TextFrame(<<LivePara(runs)>>)
                           EXCEPT !.word_wrap = word_wrap, !.auto_size = auto_size]]
       ELSE framed

TripInit ==
    /\ t_variant \in Variants
    /\ t_rtl \in BOOLEAN
    /\ t_live0 \in {RoundTripSlide(kind, word_wrap, auto_size, notes_kind) :
                       kind \in LiveSlideKinds, word_wrap \in BOOLEAN,
                       auto_size \in AutoSizes, notes_kind \in NotesKinds}
    /\ t_live = t_live0
    /\ t_json = <<>>
    /\ t_pc = "extract"
    /\ t_stats = NoStats

TripIdle ==
    /\ t_variant = "none"
    /\ t_rtl = FALSE
    /\ t_live0 = LiveSlide(<<>>)
    /\ t_live = LiveSlide(<<>>)
    /\ t_json = <<>>
    /\ t_pc = "idle"
    /\ t_stats = NoStats

\* PPTXExtractor.extract_slide
ExtractStep ==
    /\ t_pc = "extract"
    /\ t_json' = <<ExtractSlide(t_live)>>
    /\ t_pc' = "translate"
    /\ UNCHANGED <<t_variant, t_rtl, t_live0, t_live, t_stats>>

\* the translation stage with the identity for translate_batch
TranslateStep ==
    /\ t_pc = "translate"
    /\ \E o \in {TranslateWithIdentity(t_json[1])} :
          IF o.raised
          THEN /\ t_pc' = "raised"
               /\ UNCHANGED t_json
          ELSE /\ t_json' = <<o.v>>
               /\ t_pc' = "reassemble"
    /\ UNCHANGED <<t_variant, t_rtl, t_live0, t_live, t_stats>>

\* PPTXReassembler.update_slide
ReassembleStep ==
    /\ t_pc = "reassemble"
    /\ \E writable \in BOOLEAN :
         \E o \in {UpdateSlide(t_variant, t_live, t_json[1], SlideWidth, t_rtl, writable,
                              t_stats)} :
            /\ t_live' = o.v
            /\ t_stats' = o.stats
    /\ t_pc' = "done"
    /\ UNCHANGED <<t_variant, t_rtl, t_live0, t_json>>

----------------------------------------------------------------------------
(* Charts: translate_chart, then update_chart *)

\* a JSON value where a text is expected: a string or a number
StrItem(t) == [is_str |-> TRUE, text |-> t, num |-> 0]
NumItem(n) == [is_str |-> FALSE, text |-> <<>>, num |-> n]

\* Python's truth of such a value
Truthy(item) == IF item.is_str THEN item.text # <<>> ELSE item.num # 0


\* a translate_batch that sends whatever is truthy to the backend and takes
\* the text it answers
TranslateBatchAnything(texts, o) ==
    Returned([i \in 1..Len(texts) |->
                 IF Truthy(texts[i])
                 THEN StrItem(Translation(texts[i].text)) ELSE texts[i]])

\* translate_batch on JSON values: `if text and text.strip()` raises
\* AttributeError on a truthy value that is no string, before any request;
\* falsy and blank values are passed through, the others come back as the
\* backend answered them
TranslateBatchItems(texts, o) ==
    IF \E i \in 1..Len(texts) : Truthy(texts[i]) /\ ~texts[i].is_str
    THEN RaisedError
    ELSE Returned([i \in 1..Len(texts) |->
                     IF ~Truthy(texts[i]) \/ IsBlank(texts[i].text) THEN texts[i]
                     ELSE StrItem(CASE o = "tr" -> Translation(texts[i].text)
                                    [] o = "same" -> texts[i].text
                                    [] o = "pad" -> texts[i].text \o <<" ">>)])

\* the positions of the truthy entries of a list
RECURSIVE TruthyFrom(_, _)
TruthyFrom(items, i) ==
    IF i > Len(items) THEN <<>>
    ELSE (IF Truthy(items[i]) THEN <<i>> ELSE <<>>) \o TruthyFrom(items, i + 1)

\* the place of x in a sequence without repetitions
PlaceOf(x, xs) == CHOOSE k \in 1..Len(xs) : xs[k] = x

\* translate_chart: title, series_name of data_values, series_names, and the
\* categories when one of them is a string; values are not looked at
TranslateChart(chart_data, o) ==
    LET title == IF Truthy(chart_data.title)
                 THEN TranslateBatchItems(<<chart_data.title>>, o)
                 ELSE Returned(<<chart_data.title>>)
        named == TruthyFrom([i \in 1..Len(chart_data.data_values) |->
                                chart_data.data_values[i].series_name], 1)
        translated_names ==
            IF named = <<>> THEN Returned(<<>>)
            ELSE TranslateBatchItems([k \in 1..Len(named) |->
                                         chart_data.data_values[named[k]].series_name], o)
        series_names == IF chart_data.series_names # <<>>
                        THEN TranslateBatchItems(chart_data.series_names, o)
                        ELSE Returned(chart_data.series_names)
        categories == IF \E i \in 1..Len(chart_data.categories) :
                               chart_data.categories[i].is_str
                      THEN TranslateBatchItems(chart_data.categories, o)
                      ELSE Returned(chart_data.categories)
    IN IF title.raised \/ translated_names.raised \/ series_names.raised
          \/ categories.raised
       THEN RaisedError
       ELSE Returned([chart_data EXCEPT
               !.title = title.v[1],
               !.data_values = [i \in 1..Len(@) |->
                   IF Truthy(@[i].series_name)
                   THEN [@[i] EXCEPT
                           !.series_name = translated_names.v[
                               PlaceOf(i, named)]]
                   ELSE @[i]],
               !.series_names = series_names.v,
               !.categories = categories.v])

\* the values a category of the JSON can hold
CategoryItems == {StrItem(<<"q">>), StrItem(<<" ">>), NumItem(0), NumItem(7)}

\* the chart_data translate_chart is called with
SourceCharts ==
    {[title |-> title, data_values |-> data_values, series_names |-> series_names,
      categories |-> categories] :
        title \in {StrItem(<<>>), StrItem(<<"t">>)},
        data_values \in {<<>>,
                         <<[series_name |-> StrItem(<<>>), values |-> <<3, 4>>],
                           [series_name |-> StrItem(<<"s">>), values |-> <<1, 2>>]>>},
        series_names \in {<<>>, <<StrItem(<<"s">>)>>},
        categories \in SeqsUpTo(CategoryItems, MaxCategories)}

\* the translated chart_data update_chart is called with: its categories and
\* values are not those of the live chart
TranslatedCharts ==
    {[JsonChart(title, [a \in {"category", "value"} |-> "#axis"], data_values,
                series_names)
         EXCEPT !.categories = <<"#q1", "#q2">>,
                !.series = [i \in 1..Len(@) |-> [@[i] EXCEPT !.values = <<8, 9>>]]] :
        title \in {"", "#sales"},
        data_values \in {<<>>,
                         <<[series_name |-> "#s1", values |-> <<8, 9>>,
                            data_labels |-> <<[point_index |-> 1, text |-> "#l"]>>]>>},
        series_names \in {<<>>, <<"#n1">>}}

ChartInit ==
    /\ h_variant \in Variants
    /\ h_rtl \in BOOLEAN
    /\ h_src \in SourceCharts
    /\ h_oc \in Outcomes
    /\ h_out = <<>>
    /\ h_json \in TranslatedCharts
    /\ h_live0 = ChartShape(7, "Cht", 400,
                            LiveChart(TRUE, "sales", {"category"},
                                      <<LiveSeries("s1", <<1, 2>>)>>))
    /\ h_live = h_live0
    /\ h_pc = "translate"

ChartIdle ==
    /\ h_variant = "none"
    /\ h_rtl = FALSE
    /\ h_src = <<>>
    /\ h_oc = "none"
    /\ h_out = <<>>
    /\ h_json = <<>>
    /\ h_live0 = <<>>
    /\ h_live = <<>>
    /\ h_pc = "idle"

\* translate_chart(chart_data)
TranslateChartCall ==
    /\ h_pc = "translate"
    /\ h_out' = <<TranslateChart(h_src, h_oc)>>
    /\ h_pc' = "update"
    /\ UNCHANGED <<h_variant, h_rtl, h_src, h_oc, h_json, h_live0, h_live>>

\* update_chart(shape, translated_chart_data)
UpdateChartCall ==
    /\ h_pc = "update"
    /\ \E writable \in BOOLEAN :
          \E o \in {UpdateChart(h_variant, h_live, h_json, h_rtl, writable, NoStats)} :
              h_live' = o.v
    /\ h_pc' = "done"
    /\ UNCHANGED <<h_variant, h_rtl, h_src, h_oc, h_out, h_json, h_live0>>

----------------------------------------------------------------------------
(* PPTXExtractor.extract_all *)

\* extract_shape raises for some shape the shape loop of extract_slide or
\* extract_grouped_shapes comes to
RECURSIVE ExtractRaises(_, _)
ExtractRaises(shapes, bad) ==
    IF shapes = <<>> THEN FALSE
    ELSE \/ IF Head(shapes).kind = "group" THEN ExtractRaises(Head(shapes).shapes, bad)
            ELSE Head(shapes).shape_id \in bad
         \/ ExtractRaises(Tail(shapes), bad)

\* extract_slide: nothing catches what extract_shape raises
ExtractSlideOrRaise(slide, bad) ==
    IF ExtractRaises(slide.shapes, bad) THEN RaisedError ELSE Returned(ExtractSlide(slide))

\* the shape_ids of the model's live slides
ShapeIds == {2, 3, 5, 6, 7, 11}

ExtractInit ==
    /\ e_slides \in {[i \in 1..Len(ks) |-> LiveSlideOf(ks[i])] :
                        ks \in SeqsOfKinds(LiveSlideKinds, MaxSlides)}
    /\ e_bad \in {{}} \cup {{id} : id \in ShapeIds}
    /\ e_idx = 0
    /\ e_data = <<>>
    /\ e_pc = "loop"

ExtractIdle ==
    /\ e_slides = <<>>
    /\ e_bad = {}
    /\ e_idx = 0
    /\ e_data = <<>>
    /\ e_pc = "idle"

\* one turn of the slide loop of extract_all
ExtractSlideCall ==
    /\ e_pc = "loop" /\ e_idx < Len(e_slides)
    /\ \E o \in {ExtractSlideOrRaise(e_slides[e_idx + 1], e_bad)} :
          IF o.raised
          THEN /\ e_pc' = "raised"
               /\ UNCHANGED <<e_idx, e_data>>
          ELSE /\ e_data' = Append(e_data, o.v)
               /\ e_idx' = e_idx + 1
               /\ UNCHANGED e_pc
    /\ UNCHANGED <<e_slides, e_bad>>

\* the slide loop is over: return self.data
ExtractAllReturn ==
    /\ e_pc = "loop" /\ e_idx >= Len(e_slides)
    /\ e_pc' = "done"
    /\ UNCHANGED <<e_slides, e_bad, e_idx, e_data>>

----------------------------------------------------------------------------
(* translate_presentation: the slide loop around translate_slide_with_retry *)

Decks == UNION {[1..n -> DeckSlides] : n \in 0..MaxSlides}

PresInit ==
    /\ p_data \in Decks
    /\ p_idx = 0
    /\ p_out = <<>>
    /\ p_failed = <<>>
    /\ p_pc = "loop"

PresIdle ==
    /\ p_data = <<>>
    /\ p_idx = 0
    /\ p_out = <<>>
    /\ p_failed = <<>>
    /\ p_pc = "idle"

\* `translated_slide = self.translate_slide_with_retry(slide, idx, max_retries=3)`:
\* the call is entered
PresEnterSlide ==
    /\ p_pc = "loop" /\ p_idx < Len(p_data)
    /\ p_pc' = "slide"
    /\ r_slide' = p_data[p_idx + 1]
    /\ r_max' = 3
    /\ r_attempt' = 0
    /\ r_best' = <<>>
    /\ r_best_count' = <<>>
    /\ r_pc' = "loop"
    /\ r_result' = <<>>
    /\ r_calls' = 0
    /\ r_sleeps' = 0
    /\ r_hist' = <<>>
    /\ UNCHANGED <<p_data, p_idx, p_out, p_failed>>

\* the call returned: append, count what stayed untranslated, next slide
PresCollectSlide ==
    /\ p_pc = "slide" /\ r_pc = "done"
    /\ LET translated_slide == r_result[1].slide
           untranslated_count == CountUntranslatedTexts(p_data[p_idx + 1], translated_slide)
       IN /\ p_out' = Append(p_out, translated_slide)
          /\ p_failed' = IF untranslated_count > 0
                         THEN Append(p_failed, <<p_idx + 1, untranslated_count>>)
                         ELSE p_failed
    /\ p_idx' = p_idx + 1
    /\ p_pc' = "loop"
    /\ r_pc' = "returned"
    /\ UNCHANGED <<p_data, r_slide, r_max, r_attempt, r_best, r_best_count, r_result,
                   r_calls, r_sleeps, r_hist>>

\* the slide loop is over: return translated_data
PresReturn ==
    /\ p_pc = "loop" /\ p_idx >= Len(p_data)
    /\ p_pc' = "done"
    /\ UNCHANGED <<p_data, p_idx, p_out, p_failed, retryVars>>

----------------------------------------------------------------------------
(* extract_smartart_xml: hierarchy levels of the diagram nodes *)

MaxNodes == 3

\* None for node["level"] and node["parent_id"]
NoLevel == <<>>
NoParent == 0

\* the levels the layout metadata gives in the model
MetaLevels == {NoLevel, <<0>>, <<2>>}

\* the node lists after the connection list was read: node i has modelId i,
\* a level from the layout metadata or None, and as parent_id None, the id of
\* a node (its own included) or an id no node has (n + 1)
DiagramNodes(n) ==
    {[i \in 1..n |-> [node_id |-> i, level |-> f[i][1], parent_id |-> f[i][2]]]
        : f \in [1..n -> MetaLevels \X (0..(n + 1))]}

\* assign_level(node_id, level, nodes); AssignLevelFrom is its `for node in
\* nodes` loop from position k on, AssignChildren its `for child in children`
RECURSIVE AssignLevelFrom(_, _, _, _), AssignChildren(_, _, _)
AssignChildren(children, level, nodes) ==
    IF children = <<>> THEN nodes
    ELSE AssignChildren(Tail(children), level,
                        AssignLevelFrom(1, Head(children), level, nodes))

AssignLevelFrom(k, node_id, level, nodes) ==
    IF k > Len(nodes) THEN nodes
    ELSE IF nodes[k].node_id = node_id /\ nodes[k].level = NoLevel
         THEN LET marked == [nodes EXCEPT ![k].level = <<level>>]
                  children == SelectSeq([i \in 1..Len(marked) |-> i],
                                        LAMBDA i : marked[i].parent_id = node_id)
                  child_ids == [c \in 1..Len(children) |-> marked[children[c]].node_id]
              IN AssignLevelFrom(k + 1, node_id, level,
                                 AssignChildren(child_ids, level + 1, marked))
         ELSE AssignLevelFrom(k + 1, node_id, level, nodes)

AssignLevel(node_id, level, nodes) == AssignLevelFrom(1, node_id, level, nodes)

\* `for root_node in root_nodes: assign_level(root_node["node_id"], 0, nodes)`
RECURSIVE AssignRoots(_, _)
AssignRoots(root_ids, nodes) ==
    IF root_ids = <<>> THEN nodes
    ELSE AssignRoots(Tail(root_ids), AssignLevel(Head(root_ids), 0, nodes))

InferLevels(nodes) ==
    LET root_nodes == SelectSeq(nodes, LAMBDA n : n.parent_id = NoParent)
    IN AssignRoots([i \in 1..Len(root_nodes) |-> root_nodes[i].node_id], nodes)

LevelInit ==
    /\ \E n \in 0..MaxNodes : g_nodes0 \in DiagramNodes(n)
    /\ g_nodes = g_nodes0
    /\ g_pc = "infer"

LevelIdle ==
    /\ g_nodes0 = <<>>
    /\ g_nodes = <<>>
    /\ g_pc = "idle"

\* `if smartart_element["nodes"]:` and the inference below it
InferLevelsCall ==
    /\ g_pc = "infer"
    /\ g_nodes' = IF g_nodes # <<>> THEN InferLevels(g_nodes) ELSE g_nodes
    /\ g_pc' = "done"
    /\ UNCHANGED g_nodes0

----------------------------------------------------------------------------
(* app.py: the Streamlit script and its session state *)

MaxStarts == 2

\* PPTTranslator.stats, which translate_presentation returns
TranslatorStatsKeys == {"total_texts_translated", "api_calls", "total_tokens_used"}

\* the keys Stage 2 reads from translation_stats after the translation
ShownStatsKeys ==
    {"total_texts_translated", "api_calls", "total_tokens_used", "total_cost_usd"}

\* the session state the script sets up on its first run
NewSession ==
    [processing |-> FALSE, extraction_done |-> FALSE, translation_done |-> FALSE,
     reassembly_done |-> FALSE, output_file |-> "None"]

StageResults == {"ok", "raises"}

\* save: writing the upload to json_bin; read: reading output_pptx back
Plans == [save : StageResults, extract : StageResults, translate : StageResults,
          reassemble : StageResults, read : StageResults]

AllSucceed(plan) == \A k \in DOMAIN plan : plan[k] = "ok"

\* The script hands control to Streamlit at every st.* call. A script run is
\* recorded as the calls it makes, each with the line of the call and the
\* session state at that moment.
Calls(st, lines) ==
    Then(st, LAMBDA v :
        [v EXCEPT !.calls = @ \o [i \in 1..Len(lines) |-> [line |-> lines[i], s |-> v.s]]])

\* a stage's `except Exception`: st.error at `line`, processing = False,
\* st.stop()
StageFailed(st, line, message) ==
    [Calls(st, <<line>>) EXCEPT !.s.processing = FALSE, !.shown = Append(@, message),
                                !.stopped = TRUE]

\* extraction that raises does so in extract_all
Stage1(st, plan) ==
    IF ~st.s.extraction_done
    THEN LET begun == Calls(st, <<111, 112, 113, 115>>)
         IN IF plan.extract = "ok"
            THEN LET ran == Calls(begun, <<120, 121, 124, 125, 128>>)
                 IN Calls([ran EXCEPT !.s.extraction_done = TRUE,
                                      !.shown = Append(@, "Extraction completed")],
                          <<133, 134>>)
            ELSE StageFailed(Calls(begun, <<120, 121>>), 137, "Extraction failed")
    ELSE Calls([st EXCEPT !.shown = Append(@, "Extraction completed")], <<141>>)

\* translation_done is set before the statistics are shown; a key missing
\* from translation_stats raises KeyError inside the stage's try, when the
\* argument of the st.markdown of line 172 is built. Translation that raises
\* does so in translate_presentation
Stage2(st, plan) ==
    IF st.s.extraction_done /\ ~st.s.translation_done
    THEN LET begun == Calls(st, <<144, 145, 146, 148>>)
         IN IF plan.translate = "ok"
            THEN LET ran == Calls(begun, <<153, 159, 160, 163>>)
                     done == Calls([ran EXCEPT !.s.translation_done = TRUE,
                                               !.shown = Append(@, "Translation completed")],
                                   <<168, 169, 170, 171>>)
                 IN IF ShownStatsKeys \subseteq TranslatorStatsKeys
                    THEN Calls(done, <<172>>)
                    ELSE StageFailed(done, 175, "Translation failed")
            ELSE StageFailed(Calls(begun, <<153, 159, 160>>), 175, "Translation failed")
    ELSE IF st.s.translation_done
         THEN Calls([st EXCEPT !.shown = Append(@, "Translation completed")], <<180>>)
         ELSE st

\* reassembly_done is set before output_pptx is read back, with no st.* call
\* between the two. Reassembly that raises does so in reassemble
Stage3(st, plan) ==
    IF st.s.translation_done /\ ~st.s.reassembly_done
    THEN LET begun == Calls(st, <<183, 184, 185, 187>>)
         IN IF plan.reassemble = "ok"
            THEN LET ran == Calls(begun, <<192, 193, 196>>)
                     done == [ran EXCEPT !.s.reassembly_done = TRUE]
                 IN IF plan.read = "ok"
                    THEN Calls([done EXCEPT !.s.output_file = "bytes",
                                            !.shown = Append(@, "Reassembly completed")],
                               <<206, 207, 208>>)
                    ELSE StageFailed(done, 211, "Reassembly failed")
            ELSE StageFailed(Calls(begun, <<192, 193>>), 211, "Reassembly failed")
    ELSE IF st.s.reassembly_done
         THEN Calls([st EXCEPT !.shown = Append(@, "Reassembly completed")], <<216>>)
         ELSE st

\* the script down to the Start Translation button: page set-up, the two
\* widgets, the size check (a file over 20MB gets the st.error "File size
\* ... exceeds the 20MB limit" and counts as no file from there on)
ScriptTop(session, uploaded) ==
    LET st0 == Calls([s |-> session, shown |-> <<>>, stopped |-> FALSE, calls |-> <<>>],
                     <<11, 16, 36, 48, 51, 58>>)
        st1 == IF uploaded = "big"
               THEN [Calls(st0, <<71>>) EXCEPT !.shown = Append(@, "File size")]
               ELSE IF uploaded = "ok" THEN Calls(st0, <<74, 76, 78>>)
               ELSE st0
    IN IF uploaded = "ok" /\ ~session.processing THEN Calls(st1, <<81>>) ELSE st1

\* `if st.session_state.processing and uploaded_file is not None:` and its
\* body; the outer handler has no st.stop()
RunStages(st0, uploaded, plan) ==
    IF ~(st0.s.processing /\ uploaded = "ok") THEN st0
    ELSE IF plan.save # "ok"
    THEN [Calls(st0, <<221>>) EXCEPT !.s.processing = FALSE,
                                     !.shown = Append(@, "An error occurred")]
    ELSE Then(Stage1(Calls(st0, <<105, 108>>), plan), LAMBDA st1 :
         Then(IF st1.stopped THEN st1 ELSE Stage2(st1, plan), LAMBDA st2 :
         Then(IF st2.stopped THEN st2 ELSE Stage3(st2, plan), LAMBDA st3 :
              IF st3.stopped THEN st3 ELSE [st3 EXCEPT !.s.processing = FALSE])))

\* the download section and the footer, which a run ended by st.stop() does
\* not reach
ScriptBottom(st) ==
    IF st.stopped THEN st
    ELSE Calls(IF st.s.reassembly_done /\ st.s.output_file # "None"
               THEN Calls(st, <<225, 226, 228, 230, 232, 234, 237, 239, 248>>)
               ELSE st,
               <<259, 260>>)

\* one run of the script from top to bottom
WholeScript(session, uploaded, plan) ==
    Then(ScriptTop(session, uploaded), LAMBDA top :
    Then(RunStages(top, uploaded, plan), LAMBDA st : ScriptBottom(st)))

\* the buttons a script run renders: Start Translation at line 81, Translate
\* Another File at line 248
ButtonsOf(st) ==
    (IF \E i \in 1..Len(st.calls) : st.calls[i].line = 81
     THEN {"Start Translation"} ELSE {})
    \cup (IF \E i \in 1..Len(st.calls) : st.calls[i].line = 248
          THEN {"Translate Another File"} ELSE {})

AppInit ==
    /\ s_session = NewSession
    /\ s_uploaded = "none"
    /\ s_plan \in {p \in Plans : AllSucceed(p)}
    /\ s_shown = <<>>
    /\ s_buttons = {}
    /\ s_runs = 0
    /\ s_pc = "idle"

AppIdle ==
    /\ s_session = NewSession
    /\ s_uploaded = "none"
    /\ s_plan = [k \in {} |-> "ok"]
    /\ s_shown = <<>>
    /\ s_buttons = {}
    /\ s_runs = 0
    /\ s_pc = "off"

Uploads == {"none", "ok", "big"}

\* the user uploads, replaces or removes the file, or picks a language: the
\* script is run again
FileChanged ==
    /\ s_pc = "idle"
    /\ s_uploaded' \in Uploads
    /\ s_pc' = "rerun"
    /\ UNCHANGED <<s_session, s_plan, s_shown, s_buttons, s_runs>>

\* the user clicks a rendered button: its handler sets the session state and
\* calls st.rerun()
ButtonClicked ==
    /\ s_pc = "idle"
    /\ \E b \in s_buttons :
          IF b = "Start Translation"
          THEN /\ s_runs < MaxStarts
               /\ s_session' = [s_session EXCEPT !.processing = TRUE,
                                                 !.extraction_done = FALSE,
                                                 !.translation_done = FALSE,
                                                 !.reassembly_done = FALSE]
               /\ s_plan' \in Plans
               /\ s_runs' = s_runs + 1
          ELSE /\ s_session' = NewSession
               /\ UNCHANGED <<s_plan, s_runs>>
    /\ s_pc' = "rerun"
    /\ UNCHANGED <<s_uploaded, s_shown, s_buttons>>

\* the script runs to its end (or to st.stop()) with no widget touched
\* meanwhile
Rerun ==
    /\ s_pc = "rerun"
    /\ \E st \in {WholeScript(s_session, s_uploaded, s_plan)} :
          /\ s_session' = st.s
          /\ s_shown' = st.shown
          /\ s_buttons' = ButtonsOf(st)
    /\ s_pc' = "idle"
    /\ UNCHANGED <<s_uploaded, s_plan, s_runs>>

\* the user touches a widget while the script runs: Streamlit ends the run at
\* the st.* call it has come to, keeps the session state as it is there, and
\* runs the script again with the widgets' new values
Interrupted ==
    /\ s_pc = "rerun"
    /\ \E st \in {WholeScript(s_session, s_uploaded, s_plan)} :
          \E i \in 1..Len(st.calls) : s_session' = st.calls[i].s
    /\ s_uploaded' \in Uploads
    /\ s_pc' = "rerun"
    /\ UNCHANGED <<s_plan, s_shown, s_buttons, s_runs>>

----------------------------------------------------------------------------
(* Specifications *)

vars == <<retryVars, countVars, batchVars, reasmVars, runsVars, tripVars, chartVars, extractVars, presVars, levelVars, appVars>>

NextRetry ==
    \/ AttemptCompletes /\ UNCHANGED <<countVars, batchVars, reasmVars, runsVars, tripVars, chartVars, extractVars, presVars, levelVars, appVars>>
    \/ AttemptRaises /\ UNCHANGED <<countVars, batchVars, reasmVars, runsVars, tripVars, chartVars, extractVars, presVars, levelVars, appVars>>
    \/ LoopExhausted /\ UNCHANGED <<countVars, batchVars, reasmVars, runsVars, tripVars, chartVars, extractVars, presVars, levelVars, appVars>>

InitRetry == RetryInit /\ CountIdle /\ BatchIdle /\ ReasmIdle /\ RunsIdle /\ TripIdle /\ ChartIdle /\ ExtractIdle /\ PresIdle /\ LevelIdle /\ AppIdle

SpecRetry == InitRetry /\ [][NextRetry]_vars

NextCount == CountCall /\ UNCHANGED <<retryVars, batchVars, reasmVars, runsVars, tripVars, chartVars, extractVars, presVars, levelVars, appVars>>

InitCount == CountInit /\ RetryIdle /\ BatchIdle /\ ReasmIdle /\ RunsIdle /\ TripIdle /\ ChartIdle /\ ExtractIdle /\ PresIdle /\ LevelIdle /\ AppIdle

SpecCount == InitCount /\ [][NextCount]_vars

NextBatch ==
    \/ BatchStart /\ UNCHANGED <<retryVars, countVars, reasmVars, runsVars, tripVars, chartVars, extractVars, presVars, levelVars, appVars>>
    \/ DeepLPostFails /\ UNCHANGED <<retryVars, countVars, reasmVars, runsVars, tripVars, chartVars, extractVars, presVars, levelVars, appVars>>
    \/ DeepLPostAnswered /\ UNCHANGED <<retryVars, countVars, reasmVars, runsVars, tripVars, chartVars, extractVars, presVars, levelVars, appVars>>
    \/ DeepLResend /\ UNCHANGED <<retryVars, countVars, reasmVars, runsVars, tripVars, chartVars, extractVars, presVars, levelVars, appVars>>
    \/ DeepLSmallPost /\ UNCHANGED <<retryVars, countVars, reasmVars, runsVars, tripVars, chartVars, extractVars, presVars, levelVars, appVars>>
    \/ DeepLSingle /\ UNCHANGED <<retryVars, countVars, reasmVars, runsVars, tripVars, chartVars, extractVars, presVars, levelVars, appVars>>
    \/ GptBatchCall /\ UNCHANGED <<retryVars, countVars, reasmVars, runsVars, tripVars, chartVars, extractVars, presVars, levelVars, appVars>>
    \/ GptSingle /\ UNCHANGED <<retryVars, countVars, reasmVars, runsVars, tripVars, chartVars, extractVars, presVars, levelVars, appVars>>

InitBatch == BatchInit /\ RetryIdle /\ CountIdle /\ ReasmIdle /\ RunsIdle /\ TripIdle /\ ChartIdle /\ ExtractIdle /\ PresIdle /\ LevelIdle /\ AppIdle

SpecBatch == InitBatch /\ [][NextBatch]_vars

\* the steps of translate_batch that are sure to end: the batch request
\* (timeout=60), the request of translate_batch_small (timeout=60), the request
\* of translate_single (timeout=30), the chat completions (the OpenAI client's
\* own timeout) and every sleep
TimedSteps ==
    \/ BatchStart
    \/ DeepLPostFails
    \/ DeepLPostAnswered
    \/ DeepLSmallPost
    \/ DeepLSingle
    \/ GptBatchCall
    \/ GptSingle

\* the re-send without glossary_id is posted with no timeout: nothing makes it
\* return, so DeepLResend is a step the call may take and need not take
SpecBatchLive == InitBatch /\ [][NextBatch]_vars /\ WF_batchVars(TimedSteps)

NextReasm ==
    \/ ReassembleStart /\ UNCHANGED <<retryVars, countVars, batchVars, runsVars, tripVars, chartVars, extractVars, presVars, levelVars, appVars>>
    \/ UpdateSlideBegin /\ UNCHANGED <<retryVars, countVars, batchVars, runsVars, tripVars, chartVars, extractVars, presVars, levelVars, appVars>>
    \/ UpdateSlideStep /\ UNCHANGED <<retryVars, countVars, batchVars, runsVars, tripVars, chartVars, extractVars, presVars, levelVars, appVars>>
    \/ ReassembleFinish /\ UNCHANGED <<retryVars, countVars, batchVars, runsVars, tripVars, chartVars, extractVars, presVars, levelVars, appVars>>

InitReasm == ReasmInit /\ RetryIdle /\ CountIdle /\ BatchIdle /\ RunsIdle /\ TripIdle /\ ChartIdle /\ ExtractIdle /\ PresIdle /\ LevelIdle /\ AppIdle

SpecReasm == InitReasm /\ [][NextReasm]_vars

NextRuns == UpdateTextRunsCall /\ UNCHANGED <<retryVars, countVars, batchVars, reasmVars, tripVars, chartVars, extractVars, presVars, levelVars, appVars>>

InitRuns == RunsInit /\ RetryIdle /\ CountIdle /\ BatchIdle /\ ReasmIdle /\ TripIdle /\ ChartIdle /\ ExtractIdle /\ PresIdle /\ LevelIdle /\ AppIdle

SpecRuns == InitRuns /\ [][NextRuns]_vars

NextTrip ==
    \/ ExtractStep /\ UNCHANGED <<retryVars, countVars, batchVars, reasmVars, runsVars, chartVars, extractVars, presVars, levelVars, appVars>>
    \/ TranslateStep /\ UNCHANGED <<retryVars, countVars, batchVars, reasmVars, runsVars, chartVars, extractVars, presVars, levelVars, appVars>>
    \/ ReassembleStep /\ UNCHANGED <<retryVars, countVars, batchVars, reasmVars, runsVars, chartVars, extractVars, presVars, levelVars, appVars>>

InitTrip == TripInit /\ RetryIdle /\ CountIdle /\ BatchIdle /\ ReasmIdle /\ RunsIdle /\ ChartIdle /\ ExtractIdle /\ PresIdle /\ LevelIdle /\ AppIdle

SpecTrip == InitTrip /\ [][NextTrip]_vars

NextChart ==
    \/ TranslateChartCall /\ UNCHANGED <<retryVars, countVars, batchVars, reasmVars, runsVars, tripVars, extractVars, presVars, levelVars, appVars>>
    \/ UpdateChartCall /\ UNCHANGED <<retryVars, countVars, batchVars, reasmVars, runsVars, tripVars, extractVars, presVars, levelVars, appVars>>

InitChart == ChartInit /\ RetryIdle /\ CountIdle /\ BatchIdle /\ ReasmIdle /\ RunsIdle /\ TripIdle /\ ExtractIdle /\ PresIdle /\ LevelIdle /\ AppIdle

SpecChart == InitChart /\ [][NextChart]_vars

NextExtract ==
    \/ ExtractSlideCall /\ UNCHANGED <<retryVars, countVars, batchVars, reasmVars, runsVars, tripVars, chartVars, presVars, levelVars, appVars>>
    \/ ExtractAllReturn /\ UNCHANGED <<retryVars, countVars, batchVars, reasmVars, runsVars, tripVars, chartVars, presVars, levelVars, appVars>>

InitExtract == ExtractInit /\ RetryIdle /\ CountIdle /\ BatchIdle /\ ReasmIdle /\ RunsIdle /\ TripIdle /\ ChartIdle /\ PresIdle /\ LevelIdle /\ AppIdle

SpecExtract == InitExtract /\ [][NextExtract]_vars

\* translate_presentation: with max_retries = 3 every call of
\* translate_slide_with_retry returns from inside its loop
NextPres ==
    \/ PresEnterSlide /\ UNCHANGED <<countVars, batchVars, reasmVars, runsVars, tripVars, chartVars, extractVars, levelVars, appVars>>
    \/ AttemptCompletes /\ UNCHANGED <<countVars, batchVars, reasmVars, runsVars, tripVars, chartVars, extractVars, presVars, levelVars, appVars>>
    \/ AttemptRaises /\ UNCHANGED <<countVars, batchVars, reasmVars, runsVars, tripVars, chartVars, extractVars, presVars, levelVars, appVars>>
    \/ PresCollectSlide /\ UNCHANGED <<countVars, batchVars, reasmVars, runsVars, tripVars, chartVars, extractVars, levelVars, appVars>>
    \/ PresReturn /\ UNCHANGED <<countVars, batchVars, reasmVars, runsVars, tripVars, chartVars, extractVars, levelVars, appVars>>

InitPres == PresInit /\ RetryIdle /\ CountIdle /\ BatchIdle /\ ReasmIdle /\ RunsIdle /\ TripIdle /\ ChartIdle /\ ExtractIdle /\ LevelIdle /\ AppIdle

SpecPres == InitPres /\ [][NextPres]_vars

NextLevel == InferLevelsCall /\ UNCHANGED <<retryVars, countVars, batchVars, reasmVars, runsVars, tripVars, chartVars, extractVars, presVars, appVars>>

InitLevel == LevelInit /\ RetryIdle /\ CountIdle /\ BatchIdle /\ ReasmIdle /\ RunsIdle /\ TripIdle /\ ChartIdle /\ ExtractIdle /\ PresIdle /\ AppIdle

SpecLevel == InitLevel /\ [][NextLevel]_vars

\* the reassembler, as one call of update_text_runs and as a whole
\* reassemble call
NextReassembler == NextRuns \/ NextReasm

ReassemblerInit == InitRuns \/ InitReasm

SpecReassembler == ReassemblerInit /\ [][NextReassembler]_vars

NextApp ==
    \/ FileChanged /\ UNCHANGED <<retryVars, countVars, batchVars, reasmVars, runsVars, tripVars, chartVars, extractVars, presVars, levelVars>>
    \/ ButtonClicked /\ UNCHANGED <<retryVars, countVars, batchVars, reasmVars, runsVars, tripVars, chartVars, extractVars, presVars, levelVars>>
    \/ Rerun /\ UNCHANGED <<retryVars, countVars, batchVars, reasmVars, runsVars, tripVars, chartVars, extractVars, presVars, levelVars>>
    \/ Interrupted /\ UNCHANGED <<retryVars, countVars, batchVars, reasmVars, runsVars, tripVars, chartVars, extractVars, presVars, levelVars>>

InitApp == AppInit /\ RetryIdle /\ CountIdle /\ BatchIdle /\ ReasmIdle /\ RunsIdle /\ TripIdle /\ ChartIdle /\ ExtractIdle /\ PresIdle /\ LevelIdle

SpecApp == InitApp /\ [][NextApp]_vars

\* Streamlit runs the script again once st.rerun() was called or a widget
\* changed, and the user does not keep touching widgets for ever: some run
\* gets to its end
SpecAppLive == InitApp /\ [][NextApp]_vars /\ WF_appVars(Rerun)

----------------------------------------------------------------------------
(* Claims about translate_slide_with_retry *)

\* the attempts made so far all completed, each leaving something untranslated
AllCompletedImperfect ==
    r_hist # <<>> /\ \A i \in DOMAIN r_hist : r_hist[i] > 0

\* C1: when every attempt completes with an untranslated count above 0, the
\* returned slide is the one made by the attempt with the lowest count, the
\* earliest of them on a tie, and not the last attempt because it is last.
C1_BestAttemptReturned ==
    (r_pc = "done" /\ AllCompletedImperfect) =>
        /\ r_result # <<>>
        /\ LET k == r_result[1].by
           IN /\ k \in DOMAIN r_hist
              /\ \A j \in DOMAIN r_hist : r_hist[k] <= r_hist[j]
              /\ \A j \in 1..(k - 1) : r_hist[j] > r_hist[k]
              /\ CountUntranslatedTexts(r_slide, r_result[1].slide) = r_hist[k]

\* counts 3, 1, 2: the second attempt's slide is returned
C1_Witness ==
    r_pc = "done" /\ r_hist = <<3, 1, 2>> /\ r_result # <<>> /\ r_result[1].by = 2

\* C2: an attempt that completes with count 0 is the last attempt made; its
\* slide is returned at once, without a sleep after it, whatever came before
\* and however many attempts remained.
C2_PerfectAttemptReturnsAtOnce ==
    \A i \in DOMAIN r_hist :
        r_hist[i] = 0 =>
            /\ i = Len(r_hist)
            /\ r_pc = "done"
            /\ r_result # <<>>
            /\ r_result[1].by = i
            /\ CountUntranslatedTexts(r_slide, r_result[1].slide) = 0
            /\ r_calls = i
            /\ r_sleeps = i - 1

\* a perfect second attempt after an imperfect first one, with a third left
C2_Witness ==
    /\ r_max = 3 /\ r_hist = <<2, 0>> /\ r_pc = "done"
    /\ r_result # <<>> /\ r_result[1].by = 2

\* C3: the call ends by returning a slide; translate_slide runs at most
\* max_retries times; a sleep is always followed by another attempt.
C3_BoundedAndReturnsSlide ==
    /\ r_pc \in {"loop", "done"}
    /\ r_calls <= r_max
    /\ r_pc = "loop" =>
          /\ r_sleeps = r_calls
          /\ r_calls > 0 => r_attempt < r_max
          /\ ENABLED (LoopExhausted \/ AttemptRaises \/ AttemptCompletes)
    /\ r_pc = "done" =>
          /\ r_result # <<>>
          /\ r_sleeps = IF r_calls = 0 THEN 0 ELSE r_calls - 1

\* three attempts, one of them raising, two sleeps, a slide returned
C3_Witness ==
    /\ r_pc = "done" /\ r_max = 3 /\ r_calls = 3 /\ r_sleeps = 2
    /\ \E i \in DOMAIN r_hist : r_hist[i] = -1
    /\ r_result # <<>>

\* C4: no exception of an attempt leaves the call; an attempt that raises
\* with attempts remaining is followed by another attempt; when every attempt
\* raised, the result is an equal copy of the source slide.
C4_ExceptionsContained ==
    /\ r_pc # "propagated"
    /\ \A i \in DOMAIN r_hist :
          (r_hist[i] = -1 /\ i < r_max) =>
              \/ Len(r_hist) > i
              \/ r_pc = "loop" /\ r_attempt = i /\ r_sleeps = i
    /\ (r_pc = "done" /\ r_hist # <<>> /\ \A i \in DOMAIN r_hist : r_hist[i] = -1) =>
          /\ r_result # <<>>
          /\ r_result[1].by = 0
          /\ r_result[1].slide = r_slide
          /\ TextsOfSlide(r_result[1].slide) = TextsOfSlide(r_slide)

\* three attempts on a slide with text, all raising
C4_Witness ==
    /\ r_pc = "done" /\ r_hist = <<-1, -1, -1>>
    /\ \E i \in DOMAIN TextsOfSlide(r_slide) : ~IsBlank(TextsOfSlide(r_slide)[i])
    /\ r_result # <<>> /\ r_result[1].slide = r_slide

----------------------------------------------------------------------------
(* Claims about count_untranslated_texts *)

\* the positions <<element, paragraph, run>> of the text-element runs present
\* in both trees
PairedTextRuns(o, t) ==
    {<<e, p, r>> \in (1..Len(o.elements)) \X (1..MaxRuns + 1) \X (1..MaxRuns + 1) :
        /\ e <= Len(t.elements)
        /\ p <= Len(o.elements[e].paragraphs)
        /\ p <= Len(t.elements[e].paragraphs)
        /\ r <= Len(o.elements[e].paragraphs[p].runs)
        /\ r <= Len(t.elements[e].paragraphs[p].runs)}

\* the count as the claim words it: every leaf run of the slide, source text
\* non-empty, translated text identical to it
LeafCountAsClaimed(o, t) ==
    LET os == TextsOfSlide(o)
        ts == TextsOfSlide(t)
    IN Cardinality({i \in 1..Min(Len(os), Len(ts)) : os[i] # <<>> /\ ts[i] = os[i]})

\* C5 as claimed: the count is the number of leaf runs with non-empty source
\* text whose translated text is byte-identical to the source text.
C5_AsClaimed ==
    c_trans # <<>> => c_count = LeafCountAsClaimed(c_orig, c_trans[1])

\* the count over every leaf run with surrounding whitespace left aside: the
\* runs of text elements and of table cells whose source text is not blank and
\* equals the translated text once both are stripped
LeafCountStripped(o, t) ==
    LET os == TextsOfSlide(o)
        ts == TextsOfSlide(t)
    IN Cardinality({i \in 1..Min(Len(os), Len(ts)) :
                        ~IsBlank(os[i]) /\ Strip(ts[i]) = Strip(os[i])})

\* C5 with texts compared after stripping: the count is the number of leaf
\* runs of the slide, those of table cells included, left untranslated.
C5_LeafRunsUpToWhitespace ==
    c_trans # <<>> => c_count = LeafCountStripped(c_orig, c_trans[1])

\* what count_untranslated_texts returns: the number of runs of TextBox and
\* AutoShape elements only, paired by position, whose source text is not blank
\* and equals the translated text once surrounding whitespace is stripped from
\* both; the runs of table cells, which translate_slide translates, are left out
C5_StrippedTextElementCount ==
    c_trans # <<>> =>
        c_count = Cardinality({x \in PairedTextRuns(c_orig, c_trans[1]) :
            LET oe == c_orig.elements[x[1]]
                ot == oe.paragraphs[x[2]].runs[x[3]].text
                tt == c_trans[1].elements[x[1]].paragraphs[x[2]].runs[x[3]].text
            IN /\ oe.element_type \in {"TextBox", "AutoShape"}
               /\ ~IsBlank(ot)
               /\ Strip(ot) = Strip(tt)})

\* three ordinary runs, one of them left verbatim, beside an empty run kept empty
C5_Witness ==
    /\ c_trans # <<>>
    /\ c_count = 1
    /\ Len(TextsOfSlide(c_orig)) = 3
    /\ \A i \in 1..3 : TextsOfSlide(c_orig)[i] = <<"a">>
    /\ Cardinality({i \in 1..3 : TextsOfSlide(c_trans[1])[i] = <<"a">>}) = 1
    /\ c_orig.elements[1].element_type = "TextBox"
    /\ Len(c_orig.elements) = 1

\* the only run of the slide, in a table cell, comes back verbatim and the
\* count is 0
C5_TableCellLeftOut ==
    /\ c_trans # <<>>
    /\ c_orig = BuildSlide("table_text", <<<<"a">>>>)
    /\ c_trans[1] = c_orig
    /\ LeafCountAsClaimed(c_orig, c_trans[1]) = 1
    /\ c_count = 0

\* translate_slide_with_retry returns after one attempt, as for a slide fully
\* translated, a slide whose table cell was left verbatim
C5_TableCellNeverRetried ==
    /\ r_pc = "done" /\ r_hist = <<0>>
    /\ r_slide = BuildSlide("text_table", <<<<" ">>, <<"a">>>>)
    /\ r_result[1].slide = r_slide

----------------------------------------------------------------------------
(* Claims about translate_batch *)

NonBlankPositions(texts) == {i \in 1..Len(texts) : ~IsBlank(texts[i])}

\* C6: translate_batch returns a list exactly as long as its input, whatever
\* the backend does (a 200 answer with fewer or more translations than asked
\* for, an error status, 408, 429, a timeout, a connection error, a malformed
\* body) and on every path, the split batch and the one-by-one fallback
\* included, in the DeepL translator and in the GPT translator.
C6_SameLength == b_pc = "done" => Len(b_out) = Len(b_texts)
C6_Witness ==
    /\ b_pc = "done" /\ b_translator = "deepl"
    /\ {"split", "single"} \subseteq b_path
    /\ Len(b_texts) = 6 /\ Len(b_out) = 6
    /\ \E i \in 1..6 : b_out[i] = b_texts[i]
    /\ \E i \in 1..6 : b_out[i] = Translation(b_texts[i])

\* C7, as claimed: translate_batch is order-preserving: for every input index
\* i holding a non-blank text, the output at i is the backend's translation of
\* input i (the answer item carrying that input's id, or standing at that
\* input's place in the request) or the original input i, and never the
\* translation of another input, also when the backend answers a different
\* number of items or items whose ids are not contiguous.
C7_OrderPreserving ==
    b_pc = "done" =>
        \A i \in NonBlankPositions(b_texts) :
            /\ i <= Len(b_out)
            /\ \/ b_out[i] = b_texts[i]
               \/ b_out[i] \in b_answers[i]

\* C8: in translate_batch and translate_one_by_one every input position
\* holding an empty or whitespace-only string holds the identical string in
\* the output, no such string is ever sent to the backend, and
\* total_texts_translated grows by no more than the number of non-blank
\* strings.
C8_BlanksPassThrough ==
    /\ \A t \in b_sent : ~IsBlank(t)
    /\ b_total - b_stats0.total_texts_translated <= Cardinality(NonBlankPositions(b_texts))
    /\ b_pc = "done" =>
          \A i \in 1..Len(b_texts) :
              IsBlank(b_texts[i]) => (i <= Len(b_out) /\ b_out[i] = b_texts[i])
C8_Witness ==
    /\ b_pc = "done" /\ "single" \in b_path
    /\ \E i, j \in 1..Len(b_texts) : b_texts[i] = <<>> /\ b_texts[j] = <<" ">>
    /\ b_total - b_stats0.total_texts_translated = Cardinality(NonBlankPositions(b_texts))
    /\ Cardinality(NonBlankPositions(b_texts)) >= 2
    /\ \A i \in NonBlankPositions(b_texts) : b_out[i] # b_texts[i]

----------------------------------------------------------------------------
(* Claims about PPTXReassembler.reassemble and update_slide *)

\* C9: reassemble processes exactly min(live slides, translated slides)
\* slides, in increasing index order and each once; a differing slide count
\* does not stop it; the live slides from that minimum on stay as they were
\* loaded; the returned slides_processed is that minimum.
C9_MinSlidesInOrder ==
    /\ a_pc # "raised"
    /\ a_order = [k \in 1..Len(a_order) |-> k - 1]
    /\ Len(a_order) <= Min(Len(a_live0), Len(a_json))
    /\ a_stats.slides_processed = Len(a_order)
    /\ Len(a_live) = Len(a_live0)
    /\ \A i \in 1..Len(a_live) :
          i > Len(a_order) + (IF a_pc = "mirrored" THEN 1 ELSE 0) => a_live[i] = a_live0[i]
    /\ a_pc = "loop" => ENABLED (ReassembleFinish \/ UpdateSlideBegin)
    /\ a_pc = "mirrored" => ENABLED UpdateSlideStep
    /\ a_pc = "done" =>
          /\ Len(a_order) = Min(Len(a_live0), Len(a_json))
          /\ a_returned # <<>>
          /\ a_returned[1].slides_processed = Min(Len(a_live0), Len(a_json))
C9_Witness ==
    /\ a_pc = "done" /\ Len(a_live0) = 2 /\ Len(a_json) = 1
    /\ a_order = <<0>> /\ a_returned[1].slides_processed = 1
    /\ a_live[1] # a_live0[1] /\ a_live[2] = a_live0[2]
    /\ a_live0[2].shapes[1].shape_id \in {a_json[1].elements[k].shape_id :
                                             k \in 1..Len(a_json[1].elements)}

\* the shape_ids on a slide, grouped shapes included
RECURSIVE DeepIds(_)
DeepIds(shapes) ==
    UNION {{shapes[i].shape_id} \cup DeepIds(shapes[i].shapes) : i \in 1..Len(shapes)}

\* the paths of the shapes on a slide, grouped shapes included
RECURSIVE AllPaths(_)
AllPaths(shapes) ==
    UNION {{<<i>>} \cup {<<i>> \o q : q \in AllPaths(shapes[i].shapes)} :
              i \in 1..Len(shapes)}

\* an element whose shape_id no live shape of the slide has
Stranger(slide, element) == element.shape_id \notin DeepIds(slide.shapes)

\* the elements of a translated slide whose shape_id some live shape has
RECURSIVE WithoutStrangers(_, _)
WithoutStrangers(slide, elements) ==
    IF elements = <<>> THEN <<>>
    ELSE (IF Stranger(slide, Head(elements)) THEN <<>> ELSE <<Head(elements)>>)
         \o WithoutStrangers(slide, Tail(elements))

\* what a shape holds of its own: its texts, table and chart
Own(shape) == [text_frame |-> shape.text_frame, rows |-> shape.rows, chart |-> shape.chart]

\* C10: in update_slide a translated element whose shape_id matches no live
\* shape of the slide is skipped: it is not counted in elements_updated, it
\* raises nothing, the slide ends as it would have ended without that element
\* (so no live shape's text, runs or paragraphs change because of it), the
\* other elements are still processed, and a live shape whose shape_id no
\* element carries keeps its content: shapes are never picked by name or by
\* their place in the list.
C10_UnmatchedElementSkipped ==
    \A i \in 1..Len(a_log) :
        LET slide == a_live0[i]
            elements == a_json[i].elements
            outcomes == a_log[i].outcomes
        IN /\ Len(outcomes) = Len(elements)
           /\ \A k \in 1..Len(elements) :
                 /\ Stranger(slide, elements[k]) => outcomes[k] = "Skipped"
                 /\ (elements[k].shape_id \in {slide.shapes[j].shape_id :
                                                  j \in 1..Len(slide.shapes)})
                       => outcomes[k] # "Skipped"
           /\ a_log[i].elements_updated
                 = Cardinality({k \in 1..Len(elements) : outcomes[k] = "Updated"})
           /\ \E writable \in BOOLEAN :
                 LET o == UpdateSlide(a_variant, slide,
                                      [a_json[i] EXCEPT
                                          !.elements = WithoutStrangers(slide, elements)],
                                      SlideWidth, a_rtl, writable, NoStats)
                 IN /\ a_live[i] = o.v
                    /\ a_log[i].elements_updated = o.stats.elements_updated
           /\ \A path \in AllPaths(slide.shapes) :
                 (ShapeAt(slide.shapes, path).shape_id
                     \notin {elements[k].shape_id : k \in 1..Len(elements)})
                    => Own(ShapeAt(a_live[i].shapes, path)) = Own(ShapeAt(slide.shapes, path))
C10_Witness ==
    /\ a_log # <<>>
    /\ Len(a_log[1].outcomes) >= 3
    /\ SubSeq(a_log[1].outcomes, 1, 3) = <<"Skipped", "Updated", "Skipped">>
    /\ a_log[1].elements_updated >= 1
    /\ a_live0[1].shapes[1].name = a_json[1].elements[1].name
    /\ a_live0[1].shapes[1].shape_id = 2 /\ a_json[1].elements[1].shape_id = 9
    /\ a_live[1].shapes[1].text_frame.paragraphs[1].runs[1].text = "#a"
    /\ Own(a_live[1].shapes[2]) = Own(a_live0[1].shapes[2])

----------------------------------------------------------------------------
(* update_text_runs *)

\* the call has returned and the live paragraph had as many runs as the
\* translated paragraph
CalledWithEqualCounts ==
    u_pc = "done" /\ Len(u_paragraph.runs) = Len(u_runs)

\* C11: when the live paragraph has as many runs as the translated one,
\* update_text_runs gives live run i the text of translated run i, keeps the
\* number of runs, and leaves every run's font (bold, italic, size, colour)
\* as it was.
C11_EqualCountsUpdatedInPlace ==
    CalledWithEqualCounts =>
        /\ Len(u_result.runs) = Len(u_paragraph.runs)
        /\ \A i \in 1..Len(u_result.runs) :
             /\ u_result.runs[i].text = u_runs[i].text
             /\ u_result.runs[i].font = u_paragraph.runs[i].font

\* two formatted runs received two different translated texts in place
C11_Witness ==
    /\ CalledWithEqualCounts
    /\ Len(u_runs) = 2
    /\ u_runs[1].text # u_runs[2].text
    /\ u_paragraph.runs[2].font.color = "red"
    /\ u_result.runs[2].text = u_runs[2].text
    /\ u_result.runs[2].font.color = "red"

\* the call has returned and the live paragraph had another number of runs
\* than the translated paragraph
CalledWithMismatch ==
    u_pc = "done" /\ Len(u_paragraph.runs) # Len(u_runs)

\* C12: when the live paragraph has N runs and the translated one M # N runs,
\* update_text_runs leaves exactly M runs whose texts are the translated run
\* texts in translated order, for every N >= 0 and M >= 0.
C12_MismatchLeavesTranslatedRuns ==
    CalledWithMismatch =>
        /\ Len(u_result.runs) = Len(u_runs)
        /\ \A i \in 1..Len(u_runs) : u_result.runs[i].text = u_runs[i].text

\* C13: in the rebuild for differing run counts the first run keeps the font
\* of the original first run, and every appended run has bold, italic and
\* size either unset or as its translated run says, and no colour.
C13_RebuildFormatting ==
    CalledWithMismatch =>
        /\ Len(u_paragraph.runs) > 0 =>
             u_result.runs[1].font = u_paragraph.runs[1].font
        /\ \A i \in 2..Len(u_result.runs) :
             /\ u_result.runs[i].font.bold \in {"none", u_runs[i].bold}
             /\ u_result.runs[i].font.italic \in {"none", u_runs[i].italic}
             /\ u_result.runs[i].font.font_size \in {0, u_runs[i].font_size}
             /\ u_result.runs[i].font.color = "none"

\* two runs, the first red, rebuilt from three translated runs of which the
\* third is bold and blue: run 1 is still red, run 3 is bold and uncoloured
C13_Witness ==
    /\ CalledWithMismatch
    /\ Len(u_paragraph.runs) = 2
    /\ Len(u_runs) = 3
    /\ u_paragraph.runs[1].font.color = "red"
    /\ u_runs[3].color = "blue"
    /\ u_result.runs[1].font.color = "red"
    /\ u_result.runs[1].text = u_runs[1].text
    /\ u_result.runs[3].font.bold = "yes"
    /\ u_result.runs[3].font.color = "none"

----------------------------------------------------------------------------
(* Layout mirroring and right-to-left paragraphs *)

\* the slide at 1-based position i as it was loaded, with the left edges the
\* mirroring gives to its positioned top-level shapes
MirroredOnce(i) ==
    [a_live0[i] EXCEPT !.shapes =
        [j \in 1..Len(a_live0[i].shapes) |->
            IF a_live0[i].shapes[j].placed
            THEN [a_live0[i].shapes[j] EXCEPT
                     !.left = SlideWidth - (a_live0[i].shapes[j].left
                                              + a_live0[i].shapes[j].width)]
            ELSE a_live0[i].shapes[j]]]

\* slide i differs from slide q at most in shape contents, not in any left edge
SameLefts(p, q) ==
    /\ Len(p.shapes) = Len(q.shapes)
    /\ \A path \in AllPaths(q.shapes) :
          ShapeAt(p.shapes, path).left = ShapeAt(q.shapes, path).left

\* the positioned top-level shapes of the first n slides as loaded
PlacedShapes(n) ==
    {<<i, j>> \in (1..n) \X (1..8) :
        j <= Len(a_live0[i].shapes) /\ a_live0[i].shapes[j].placed}

\* C14: with is_rtl set, every top-level shape that has a position, on every
\* slide update_slide has begun, holds slide_width - (original_left + width)
\* as its left edge: it was mirrored once and never again; when the mirroring
\* of a slide is done the slide is otherwise still as loaded, so no text was
\* written before it; shapes inside groups and shapes without a position keep
\* their left edge. With is_rtl unset no left edge changes and
\* shapes_mirrored stays 0.
C14_MirroredOnceBeforeText ==
    LET begun == Len(a_order) + (IF a_pc = "mirrored" THEN 1 ELSE 0)
    IN /\ a_rtl =>
            /\ \A i \in 1..begun : SameLefts(a_live[i], MirroredOnce(i))
            /\ a_pc = "mirrored" => a_live[begun] = MirroredOnce(begun)
            /\ a_stats.shapes_mirrored = Cardinality(PlacedShapes(begun))
       /\ ~a_rtl =>
            /\ \A i \in 1..Len(a_live) : SameLefts(a_live[i], a_live0[i])
            /\ a_stats.shapes_mirrored = 0

\* the shape at left 100, width 300 stands at 600 after its slide was
\* processed and its text was translated, and a second slide was processed too
C14_Witness ==
    /\ a_rtl /\ a_pc = "done" /\ Len(a_order) = 2
    /\ a_live0[1].shapes[1].left = 100 /\ a_live0[1].shapes[1].width = 300
    /\ a_live[1].shapes[1].left = 600
    /\ a_live[1].shapes[1].text_frame.paragraphs[1].runs[1].text = "#a"
    /\ a_live[2].shapes[1].kind = "group"
    /\ a_live[2].shapes[1].left = 600
    /\ a_live[2].shapes[1].shapes[1].left = 50
    /\ ~a_live[2].shapes[3].placed

\* a paragraph marked right-to-left and right-aligned
RtlMarked(paragraph) == paragraph.rtl = "1" /\ paragraph.algn = "r"
AllMarked(text_frame) ==
    \A k \in 1..Len(text_frame.paragraphs) : RtlMarked(text_frame.paragraphs[k])
NoneMarked(text_frame) ==
    \A k \in 1..Len(text_frame.paragraphs) :
        text_frame.paragraphs[k].rtl = "none" /\ text_frame.paragraphs[k].algn = "none"

\* the live cells a translated table addresses with paragraphs to write
TranslatedCells(shape, table_data) ==
    {<<r, c>> \in (1..Len(shape.rows)) \X (1..4) :
        /\ c <= Len(shape.rows[r])
        /\ \E n \in 1..Len(table_data.cells) :
              /\ table_data.cells[n].row = <<r - 1>>
              /\ table_data.cells[n].column = <<c - 1>>
              /\ table_data.cells[n].paragraphs # <<>>}

\* C15: with is_rtl set, after update_slide every paragraph left in every
\* translated text container of the slide (the text frame of an updated text
\* box or auto-shape, each table cell written from the translated table, the
\* speaker notes written from translated notes) has rtl=1 and algn=r; with
\* is_rtl unset no paragraph of any slide has either and rtl_paragraphs_set
\* is 0.
C15_EveryParagraphMarked ==
    /\ a_rtl =>
         \A i \in 1..Len(a_log) :
            LET elements == a_json[i].elements
                notes == a_json[i].speaker_notes
            IN /\ \A k \in 1..Len(elements) : \A path \in AllPaths(a_live[i].shapes) :
                    LET shape == ShapeAt(a_live[i].shapes, path)
                    IN (a_log[i].outcomes[k] = "Updated"
                        /\ shape.shape_id = elements[k].shape_id) =>
                          /\ (elements[k].element_type \in {"TextBox", "AutoShape"}
                              /\ shape.kind = "text") => AllMarked(shape.text_frame)
                          /\ (elements[k].element_type = "Table" /\ shape.kind = "table") =>
                                \A rc \in TranslatedCells(shape, elements[k].table_data[1]) :
                                    AllMarked(shape.rows[rc[1]][rc[2]])
               /\ (notes # <<>> /\ notes[1].text # "") => AllMarked(a_live[i].notes)
    /\ ~a_rtl =>
         /\ a_stats.rtl_paragraphs_set = 0
         /\ \A i \in 1..Len(a_live) :
               /\ NoneMarked(a_live[i].notes)
               /\ \A path \in AllPaths(a_live[i].shapes) :
                     LET shape == ShapeAt(a_live[i].shapes, path)
                     IN /\ NoneMarked(shape.text_frame)
                        /\ \A r \in 1..Len(shape.rows) : \A c \in 1..Len(shape.rows[r]) :
                              NoneMarked(shape.rows[r][c])

----------------------------------------------------------------------------
(* The round trip *)

\* the run texts of a slide: shapes at every depth, table cells, notes
RunTexts(slide) ==
    [shapes |-> [path \in AllPaths(slide.shapes) |->
                    LET shape == ShapeAt(slide.shapes, path)
                    IN [frame |-> [k \in 1..Len(shape.text_frame.paragraphs) |->
                                      [j \in 1..Len(shape.text_frame.paragraphs[k].runs) |->
                                          shape.text_frame.paragraphs[k].runs[j].text]],
                        cells |-> [r \in 1..Len(shape.rows) |->
                                      [c \in 1..Len(shape.rows[r]) |->
                                          [k \in 1..Len(shape.rows[r][c].paragraphs) |->
                                              JoinRuns(shape.rows[r][c].paragraphs[k].runs)]]]]],
     notes |-> TextOf(slide.notes)]

\* C16: a slide extracted, translated with the identity and reassembled
\* without right-to-left mode is as it was loaded: every run text, every run
\* font, the paragraphs, and the word wrap and auto-size of every text frame.
C16_RoundTripIdentity ==
    (t_pc = "done" /\ ~t_rtl) => t_live = t_live0

----------------------------------------------------------------------------
(* Tables and charts *)

\* the translated cell entries of a table that carry exactly the coordinates
\* of the live cell in row r, column c (1-based here, 0-based in the JSON)
EntriesFor(table_data, r, c) ==
    {n \in 1..Len(table_data.cells) :
        /\ table_data.cells[n].row = <<r - 1>>
        /\ table_data.cells[n].column = <<c - 1>>}

\* the live tables updated from a translated table: slide, element, shape
UpdatedTables ==
    {x \in (1..Len(a_log)) \X (1..8) \X (1..8) :
        /\ x[2] <= Len(a_json[x[1]].elements)
        /\ x[3] <= Len(a_live0[x[1]].shapes)
        /\ a_log[x[1]].outcomes[x[2]] = "Updated"
        /\ a_json[x[1]].elements[x[2]].element_type = "Table"
        /\ a_live0[x[1]].shapes[x[3]].kind = "table"
        /\ a_live0[x[1]].shapes[x[3]].shape_id = a_json[x[1]].elements[x[2]].shape_id}

\* C17: update_table writes a cell entry with coordinates (row, column) only
\* into the live cell at that row and column: a live cell no entry names by
\* its coordinates is as it was loaded, whatever entries with missing or
\* out-of-range coordinates the list holds, and a live cell named by one
\* entry holds that entry's text in its first paragraph.
C17_CellsByCoordinates ==
    \A x \in UpdatedTables :
        LET before == a_live0[x[1]].shapes[x[3]].rows
            after == a_live[x[1]].shapes[x[3]].rows
            table_data == a_json[x[1]].elements[x[2]].table_data[1]
        IN \A r \in 1..Len(before) : \A c \in 1..Len(before[r]) :
              /\ EntriesFor(table_data, r, c) = {} => after[r][c] = before[r][c]
              /\ \A n \in EntriesFor(table_data, r, c) :
                    (Cardinality(EntriesFor(table_data, r, c)) = 1
                     /\ table_data.cells[n].paragraphs # <<>>) =>
                        JoinRuns(after[r][c].paragraphs[1].runs)
                           = JoinRuns(table_data.cells[n].paragraphs[1].runs)

\* the numbers of a chart_data: values per series
ValuesOf(data_values) == [i \in 1..Len(data_values) |-> data_values[i].values]

\* the data of a live chart: categories and values per series
LiveData(shape) ==
    [categories |-> shape.chart[1].categories,
     values |-> [i \in 1..Len(shape.chart[1].series) |-> shape.chart[1].series[i].values]]

\* C18: chart handling never changes chart data: the chart_data that
\* translate_chart returns has every series' values and every category that
\* is not a string as they were passed in, and update_chart leaves the live
\* chart's categories and series values as they were loaded, whatever the
\* translated chart_data holds.
C18_ChartDataUntouched ==
    /\ (h_out # <<>> /\ ~h_out[1].raised) =>
          /\ ValuesOf(h_out[1].v.data_values) = ValuesOf(h_src.data_values)
          /\ Len(h_out[1].v.categories) = Len(h_src.categories)
          /\ \A i \in 1..Len(h_src.categories) :
                ~h_src.categories[i].is_str =>
                    h_out[1].v.categories[i] = h_src.categories[i]
    /\ h_pc = "done" => LiveData(h_live) = LiveData(h_live0)

C18_Witness ==
    /\ h_pc = "done"
    /\ ~h_out[1].raised
    /\ h_out[1].v.title # h_src.title
    /\ \E i, j \in 1..Len(h_src.categories) :
          /\ ~h_src.categories[i].is_str
          /\ h_src.categories[j].is_str
          /\ h_out[1].v.categories[j] # h_src.categories[j]
    /\ h_src.data_values # <<>>
    /\ h_out[1].v.data_values # h_src.data_values
    /\ h_live.chart[1].series[1].name # h_live0.chart[1].series[1].name
    /\ h_live.chart[1].title # h_live0.chart[1].title
    /\ h_json.categories # h_live0.chart[1].categories
    /\ \E i \in 1..Len(h_json.data_values) :
          h_json.data_values[i].values # h_live0.chart[1].series[i].values

----------------------------------------------------------------------------
(* Errors *)

\* element k of slide i has a live shape that find_shape_by_id returns
Located(i, k) ==
    FindShapeById(a_live0[i], a_json[i].elements[k], k, a_variant = "reassembler") # <<>>

\* update_slide has something to write for the element: a text element, a
\* table with table_data or a chart with chart_data
Writes(element) ==
    \/ element.element_type \in {"TextBox", "AutoShape"}
    \/ element.element_type = "Table" /\ element.table_data # <<>>
    \/ element.element_type = "Chart" /\ element.chart_data # <<>>

\* every update_slide call so far went through all elements of its slide, the
\* unlocated ones skipped and the raising ones failed; the slide's notes were
\* written, the slide was counted, and the loop goes on to the last slide
OnePassContained(ends) ==
    /\ \A i \in 1..Len(a_log) :
          LET elements == a_json[i].elements
              outcomes == a_log[i].outcomes
          IN /\ Len(outcomes) = Len(elements)
             /\ \A k \in 1..Len(elements) :
                   /\ outcomes[k] \in ends
                   /\ outcomes[k] = "Skipped" <=> ~Located(i, k)
                   /\ outcomes[k] = "Failed" =>
                         Located(i, k) /\ elements[k].paragraphs_null
                   /\ (Located(i, k) /\ Writes(elements[k])
                       /\ ~elements[k].paragraphs_null) => outcomes[k] = "Updated"
             /\ a_log[i].elements_updated
                   = Cardinality({k \in 1..Len(elements) : outcomes[k] = "Updated"})
             /\ (a_json[i].speaker_notes # <<>> /\ a_json[i].speaker_notes[1].text # "")
                   => a_live[i].has_notes_slide
    /\ a_stats.slides_processed = Len(a_log)
    /\ a_pc = "done" => Len(a_log) = a_num

\* C19 (as amended): in update_slide each translated element is visited
\* exactly once and ends in exactly one of Updated, Skipped (no matching
\* shape), Failed, or untouched (a shape matches, but the element is neither a
\* text element, a table with table_data nor a chart with chart_data, so
\* nothing is written or counted); an exception in one element is contained:
\* the remaining elements and the notes are processed, slides_processed is
\* incremented, and later slides are processed.
C19_OnePassContained ==
    /\ OnePassContained({"Updated", "Skipped", "Failed", "Untouched"})
    /\ \A i \in 1..Len(a_log) : \A k \in 1..Len(a_json[i].elements) :
          a_log[i].outcomes[k] = "Untouched"
             <=> (Located(i, k) /\ ~Writes(a_json[i].elements[k]))

\* C19 (as claimed): each element ends in exactly one of Updated, Skipped or
\* Failed, with the same containment.
C19_AsClaimed == OnePassContained({"Updated", "Skipped", "Failed"})

C19_Witness ==
    /\ a_pc = "done" /\ Len(a_log) = 2
    /\ \E k \in 1..Len(a_log[1].outcomes) :
          /\ a_log[1].outcomes[k] = "Failed"
          /\ \E n \in (k + 1)..Len(a_log[1].outcomes) : a_log[1].outcomes[n] = "Updated"
    /\ a_json[1].speaker_notes # <<>> /\ a_live[1].has_notes_slide
    /\ a_stats.notes_updated >= 1
    /\ "Untouched" \in {a_log[2].outcomes[k] : k \in 1..Len(a_log[2].outcomes)}
    /\ a_log[2].elements_updated >= 1

\* C20: translate_slide_with_retry returns the unmodified source slide only
\* when no attempt completed: once some attempt has completed, the call
\* returns a completed attempt with the lowest untranslated count, also when a
\* later attempt, the final one included, raises.
C20_SourceOnlyWhenNothingCompleted ==
    r_pc = "done" =>
        /\ r_result[1].by = 0 => \A i \in 1..Len(r_hist) : r_hist[i] = -1
        /\ (\E i \in 1..Len(r_hist) : r_hist[i] >= 0) =>
              /\ r_result[1].by \in 1..Len(r_hist)
              /\ r_hist[r_result[1].by] >= 0
              /\ \A i \in 1..Len(r_hist) :
                    r_hist[i] >= 0 => r_hist[r_result[1].by] <= r_hist[i]

\* the request loop of translate_batch is at most at its third request, has
\* waited 2s then 4s, and translate_single is at most at its third request
ChainBounded ==
    /\ b_attempt <= BatchMaxRetries - 1
    /\ b_sattempt <= SingleMaxRetries - 1
    /\ b_waits = SubSeq(<<2, 4>>, 1, b_attempt)

\* a batch request that fails is followed by a wait and another request the
\* first two times, and by the per-item fallback without a wait the third time
FailedPostStep ==
    (b_translator = "deepl" /\ b_pc = "post" /\ b_pc' \in {"post", "single"}
     /\ <<b_attempt, b_pc>>' # <<b_attempt, b_pc>>) =>
        IF b_pc' = "post"
        THEN /\ b_attempt < BatchMaxRetries - 1
             /\ b_attempt' = b_attempt + 1
             /\ b_waits' = Append(b_waits, BatchRetryDelay * Pow2(b_attempt))
        ELSE /\ b_waits' = b_waits
             /\ b_list' = b_texts /\ b_ret' = "obo"

\* the per-item fallback passes through what got no 200 answer
PassThrough ==
    (b_translator = "deepl" /\ b_pc = "done"
        /\ b_path \in {{"single"}, {"resend", "single"}}) =>
        /\ Len(b_out) = Len(b_texts)
        /\ \A i \in 1..Len(b_texts) :
              /\ b_out[i] \in {b_texts[i]} \cup b_answers[i]
              /\ b_answers[i] = {} => b_out[i] = b_texts[i]

\* translate_single settles one item of the item loop, whoever started the
\* loop (the batch, or one half of a split batch): the item becomes its
\* translation when a request was answered 200 with a text and stays the
\* original text otherwise, and the finished list is handed over as it is
ItemSettled ==
    (b_translator = "deepl" /\ b_pc = "single" /\ b_sattempt' = 0
     /\ <<b_acc, b_pc, b_first>>' # <<b_acc, b_pc, b_first>>) =>
        LET k == Len(b_acc) + 1
            text == b_list[k]
            at == InputPosition(b_ret, b_texts, k)
        IN \E v \in {text, Translation(text)} :
              LET acc == SkipBlanks(b_list, Append(b_acc, v))
              IN /\ v # text => v \in b_answers'[at] /\ b_api' = b_api + 1
                 /\ v = text => b_answers'[at] = b_answers[at]
                 /\ IF Len(acc) < Len(b_list) THEN b_acc' = acc
                    ELSE CASE b_ret = "small1" -> b_first' = acc
                           [] b_ret = "small2" ->
                                b_out' = Reconstruct(b_texts, b_first \o acc)
                           [] OTHER -> b_out' = acc

\* C21: the translation-call failure chain is bounded and ends in
\* pass-through: translate_batch makes at most 3 batch requests on timeout or
\* connection error, waiting 2s then 4s and not after the third, then falls back
\* to per-item translation; translate_single makes at most 3 requests for one
\* string and returns the original text when none answers 200; translate_batch
\* terminates for every backend behaviour.
C21_BoundedChainPassThrough ==
    /\ [](ChainBounded /\ PassThrough)
    /\ [][FailedPostStep /\ ItemSettled]_vars
    /\ <>(b_pc = "done")

\* the bounds and the pass-through of the chain, without its termination
ChainSafety ==
    /\ [](ChainBounded /\ PassThrough)
    /\ [][FailedPostStep /\ ItemSettled]_vars

\* translate_batch waits for the answer to its re-send without glossary_id
ResendPending ==
    b_translator = "deepl" /\ b_pc = "resend" /\ b_gloss_failed

C21_Witness ==
    /\ b_translator = "deepl" /\ b_pc = "done"
    /\ b_waits = <<2, 4>>
    /\ b_path = {"single"}
    /\ \E i, j \in 1..Len(b_texts) :
          /\ ~IsBlank(b_texts[i]) /\ b_answers[i] = {} /\ b_out[i] = b_texts[i]
          /\ b_answers[j] # {} /\ b_out[j] # b_texts[j]

\* a step of translate_batch around the re-send without glossary_id: the
\* re-send follows the batch request, which is not made again after it
\* (self._glossary_failed may have been set by an earlier call already)
GlossaryStep ==
    /\ (b_pc' = "resend" /\ b_pc # "resend") =>
          /\ b_pc = "post" /\ b_gloss_failed'
          /\ b_waits' = b_waits /\ b_attempt' = b_attempt
    /\ (b_pc' = "post" /\ b_pc # "post") => b_pc = "start"
    /\ (b_pc = "resend" /\ <<b_pc, b_sent, b_gloss>>' # <<b_pc, b_sent, b_gloss>>) =>
          /\ ~b_gloss'
          /\ \A k \in 1..Len(NonEmptyTexts(b_texts)) : NonEmptyTexts(b_texts)[k] \in b_sent'
          /\ \/ b_pc' = "done"
             \/ b_pc' = "single" /\ b_list' = b_texts /\ b_ret' = "obo"
    /\ (b_translator = "deepl" /\ b_pc = "post" /\ b_pc' = "single") =>
          b_list' = b_texts /\ b_ret' = "obo"
    /\ b_gloss_failed => b_gloss_failed'

\* C22: in translate_batch a 400 answer naming the glossary causes exactly one
\* re-send of the same batch without glossary_id; when the re-send is not
\* answered with 200, and when an answer of the first request is an error that
\* does not name the glossary, the whole batch goes to per-item translation;
\* the batch is never sent again after the re-send.
C22_GlossaryResentOnce ==
    /\ [][GlossaryStep]_vars
    /\ [](b_pc = "resend" => (b_gloss_failed /\ b_translator = "deepl"))
    /\ []((b_gloss_failed /\ b_pc \in {"single", "done"}) => ~b_gloss)

C22_Witness ==
    /\ b_translator = "deepl" /\ b_pc = "done"
    /\ b_gloss_failed /\ ~b_gloss
    /\ b_path = {"resend", "single"}
    /\ b_waits = <<>>
    /\ \E i \in 1..Len(b_texts) : b_answers[i] # {} /\ b_out[i] # b_texts[i]

----------------------------------------------------------------------------
(* Extraction and reconciliation *)

\* C23: every element the extractor emits for a slide, those flattened out
\* of group shapes included, is resolved by the reassembler's find_shape_by_id
\* to the live shape with the same shape_id.
C23_EveryElementResolved ==
    t_json # <<>> =>
        \A k \in 1..Len(t_json[1].elements) :
            LET path == FindShapeById(t_live0, t_json[1].elements[k], k,
                                      t_variant = "reassembler")
            IN /\ path # <<>>
               /\ ShapeAt(t_live0.shapes, path).shape_id = t_json[1].elements[k].shape_id

\* the texts of the runs of a paragraph, live or translated
TextsOfRuns(runs) == [r \in 1..Len(runs) |-> runs[r].text]

\* the shape find_shape_by_id gives for element k of slide i
PathOf(i, k) ==
    FindShapeById(a_live0[i], a_json[i].elements[k], k, a_variant = "reassembler")

\* the text elements of processed slides that update_text_frame wrote into a
\* live text frame, as <<slide, element>>; an element sharing its shape with
\* another updated element of the slide is left out
WrittenFrames ==
    {x \in (1..Len(a_log)) \X (1..6) :
        /\ x[2] <= Len(a_json[x[1]].elements)
        /\ PathOf(x[1], x[2]) # <<>>
        /\ a_log[x[1]].outcomes[x[2]] = "Updated"
        /\ a_json[x[1]].elements[x[2]].element_type \in {"TextBox", "AutoShape"}
        /\ ShapeAt(a_live0[x[1]].shapes, PathOf(x[1], x[2])).kind = "text"
        /\ \A n \in 1..Len(a_json[x[1]].elements) :
              (n # x[2] /\ a_log[x[1]].outcomes[n] = "Updated")
                 => a_json[x[1]].elements[n].shape_id # a_json[x[1]].elements[x[2]].shape_id}

\* C24: after update_text_frame on a shape that has a text frame, the number
\* of live paragraphs equals the number of translated paragraphs, live
\* paragraph i holds the runs of translated paragraph i, and auto-fit is
\* enabled on the container.
C24_FrameFollowsTranslation ==
    \A x \in WrittenFrames :
        LET frame == ShapeAt(a_live[x[1]].shapes, PathOf(x[1], x[2])).text_frame
            translated_paragraphs == a_json[x[1]].elements[x[2]].paragraphs
        IN /\ Len(frame.paragraphs) = Len(translated_paragraphs)
           /\ \A p \in 1..Len(translated_paragraphs) :
                 p <= Len(frame.paragraphs) =>
                    TextsOfRuns(frame.paragraphs[p].runs)
                       = TextsOfRuns(translated_paragraphs[p].runs)
           /\ frame.auto_size = "fit"

\* the shape_ids extract_slide emits elements for: every shape that is no group
RECURSIVE LeafIds(_)
LeafIds(shapes) ==
    IF shapes = <<>> THEN {}
    ELSE (IF Head(shapes).kind = "group" THEN LeafIds(Head(shapes).shapes)
          ELSE {Head(shapes).shape_id})
         \cup LeafIds(Tail(shapes))

\* C25: a failure while extracting one shape does not abort the slide: when
\* extract_shape raises for one shape, extract_slide still returns the slide
\* with the elements of all other shapes, and extract_all still returns every
\* slide.
C25_ShapeFailureContained ==
    /\ e_pc # "raised"
    /\ e_pc = "done" =>
          /\ Len(e_data) = Len(e_slides)
          /\ \A i \in 1..Len(e_slides) :
                {e_data[i].elements[k].shape_id : k \in 1..Len(e_data[i].elements)}
                   = LeafIds(e_slides[i].shapes) \ e_bad

\* two paragraph lists address the same runs: as many paragraphs, and as
\* many runs in each
SameRunAddresses(source_paragraphs, translated_paragraphs) ==
    /\ Len(translated_paragraphs) = Len(source_paragraphs)
    /\ \A p \in 1..Len(source_paragraphs) :
          Len(translated_paragraphs[p].runs) = Len(source_paragraphs[p].runs)

SameAddresses(source_slide, translated_slide) ==
    /\ Len(translated_slide.elements) = Len(source_slide.elements)
    /\ \A k \in 1..Len(source_slide.elements) :
          LET e == source_slide.elements[k]
              t == translated_slide.elements[k]
          IN /\ t.shape_id = e.shape_id
             /\ t.element_type = e.element_type
             /\ SameRunAddresses(e.paragraphs, t.paragraphs)
             /\ Len(t.cells) = Len(e.cells)
             /\ \A c \in 1..Len(e.cells) :
                   /\ t.cells[c].row = e.cells[c].row
                   /\ t.cells[c].column = e.cells[c].column
                   /\ SameRunAddresses(e.cells[c].paragraphs, t.cells[c].paragraphs)

\* C26: translate_slide and translate_presentation keep the addressing
\* scheme whatever the backend does: the translated slides are as many as the
\* source slides and in the same order, each has the elements of its source
\* slide in the same order with the same shape_id and element_type, and each
\* text element has as many paragraphs, and as many runs in each paragraph.
C26_AddressingPreserved ==
    /\ p_pc \in {"loop", "slide", "done"} => Len(p_out) = p_idx
    /\ p_pc = "done" => Len(p_out) = Len(p_data)
    /\ \A i \in 1..Len(p_out) : SameAddresses(p_data[i], p_out[i])
    /\ (p_pc = "slide" /\ r_pc = "done") => SameAddresses(r_slide, r_result[1].slide)

\* a two-slide presentation came back with a translated first slide and a
\* second slide that returned as its source
C26_Witness ==
    /\ p_pc = "done" /\ Len(p_data) = 2
    /\ p_out[1] # p_data[1]
    /\ p_out[2] = p_data[2] /\ p_data[2].elements # <<>>
    /\ p_failed # <<>>

\* the depth of node i below a parentless node, following parent_id upwards
\* for at most fuel links; -1 when no parentless node is found that way
RECURSIVE DepthBelowRoot(_, _, _)
DepthBelowRoot(nodes, i, fuel) ==
    IF nodes[i].parent_id = NoParent THEN 0
    ELSE IF fuel = 0 \/ nodes[i].parent_id \notin 1..Len(nodes) THEN -1
    ELSE LET d == DepthBelowRoot(nodes, nodes[i].parent_id, fuel - 1)
         IN IF d = -1 THEN -1 ELSE d + 1

\* the nodes between node i and its root (i itself excluded) that have a
\* level from the layout metadata
RECURSIVE LevelledAncestor(_, _, _)
LevelledAncestor(nodes, i, fuel) ==
    /\ fuel > 0
    /\ nodes[i].parent_id \in 1..Len(nodes)
    /\ \/ nodes[nodes[i].parent_id].level # NoLevel
       \/ LevelledAncestor(nodes, nodes[i].parent_id, fuel - 1)

\* C27: level inference terminates on every parent relation, gives every
\* node without a metadata level that is reachable from a parentless node the
\* level equal to its depth below that root, and leaves the levels read from
\* the layout metadata as they were.
C27_LevelIsDepth ==
    g_pc = "done" =>
        /\ Len(g_nodes) = Len(g_nodes0)
        /\ \A i \in 1..Len(g_nodes0) :
              /\ g_nodes0[i].level # NoLevel => g_nodes[i].level = g_nodes0[i].level
              /\ (g_nodes0[i].level = NoLevel
                     /\ DepthBelowRoot(g_nodes0, i, Len(g_nodes0)) >= 0)
                    => g_nodes[i].level = <<DepthBelowRoot(g_nodes0, i, Len(g_nodes0))>>

\* the same statement for the nodes with no levelled node above them; the
\* others keep level None
C27_LevelIsDepthBelowUnlevelled ==
    g_pc = "done" =>
        /\ Len(g_nodes) = Len(g_nodes0)
        /\ \A i \in 1..Len(g_nodes0) :
              /\ g_nodes0[i].level # NoLevel => g_nodes[i].level = g_nodes0[i].level
              /\ (g_nodes0[i].level = NoLevel
                     /\ DepthBelowRoot(g_nodes0, i, Len(g_nodes0)) >= 0)
                    => g_nodes[i].level =
                          IF LevelledAncestor(g_nodes0, i, Len(g_nodes0)) THEN NoLevel
                          ELSE <<DepthBelowRoot(g_nodes0, i, Len(g_nodes0))>>
              /\ (g_nodes0[i].level = NoLevel
                     /\ DepthBelowRoot(g_nodes0, i, Len(g_nodes0)) < 0)
                    => g_nodes[i].level = NoLevel

\* C28: translate_slide_with_retry and translate_slide never modify the
\* slide they are given: whatever the backend answers and whichever attempts
\* raise, the source slide is after every step what it was before, so every
\* attempt and every untranslated count is taken against the same source.
C28_SourceNeverModified ==
    [][r_slide' = r_slide]_vars

\* a call that made three attempts on a slide with a table, one of which raised
\* and one of which completed with texts left untranslated, and has returned
C28_Witness ==
    /\ r_pc = "done" /\ Len(r_hist) = 3
    /\ \E i, j \in 1..3 : r_hist[i] = -1 /\ r_hist[j] > 0
    /\ \E k \in 1..Len(r_slide.elements) : r_slide.elements[k].cells # <<>>
    /\ r_result[1].slide # r_slide

\* translate_slide run on objects returns the slide that translate_slide
\* returns as a value
TranslateSlideOnObjects ==
    \A oc \in Oracles(r_slide) :
        TranslatedSlideIn(r_slide, oc) = TranslateSlide(r_slide, oc)

\* no counter of the statistics went down
NotBelow(stats_after, stats_before) ==
    \A k \in DOMAIN stats_before : stats_after[k] >= stats_before[k]

\* C29: every call of update_text_runs with M translated runs adds exactly M
\* to text_runs_updated, on the equal-count path, on the rebuild path and for
\* M = 0; and no counter of the reassembly statistics ever goes down during a
\* reassemble call.
C29_RunsCountedAndMonotone ==
    /\ [](u_pc = "done" =>
             u_stats.text_runs_updated = u_stats0.text_runs_updated + Len(u_runs))
    /\ [][NotBelow(u_stats', u_stats) /\ NotBelow(a_stats', a_stats)]_vars

\* a paragraph with live runs was given no translated run, with the counter
\* already above zero
C29_Witness ==
    /\ u_pc = "done" /\ Len(u_runs) = 0 /\ Len(u_paragraph.runs) >= 1
    /\ u_stats0.text_runs_updated = 2 /\ u_stats.text_runs_updated = 2

\* a reassemble call that has updated text runs and returned
C29_ReassembleCounted ==
    a_pc = "done" /\ a_stats.text_runs_updated >= 2 /\ a_stats.elements_updated >= 1

\* the stage flags are ordered
StagesOrdered ==
    /\ s_session.reassembly_done => s_session.translation_done
    /\ s_session.translation_done => s_session.extraction_done

StageFailures == {"Extraction failed", "Translation failed", "Reassembly failed",
                  "An error occurred"}

\* the script run of a started translation is over and reported a failure
FailureReported ==
    /\ s_pc = "idle" /\ s_runs > 0
    /\ \E i \in 1..Len(s_shown) : s_shown[i] \in StageFailures

\* C30: in every reachable session state reassembly_done implies
\* translation_done and translation_done implies extraction_done; and a run
\* started with Start Translation in which extraction, translation and
\* reassembly all succeed reports no stage failure and eventually reaches
\* reassembly_done with output_file set and processing false (or the user has
\* taken the file away meanwhile).
C30_OrderedAndSuccessfulRunCompletes ==
    /\ [](s_pc # "off" => StagesOrdered)
    /\ [](AllSucceed(s_plan) => ~FailureReported)
    /\ (s_pc = "rerun" /\ s_session.processing /\ AllSucceed(s_plan))
          ~> (\/ /\ s_session.reassembly_done
                 /\ s_session.output_file # "None"
                 /\ ~s_session.processing
              \/ s_uploaded # "ok")

\* the first half of C30 alone
C30_StagesOrdered ==
    s_pc # "off" => StagesOrdered

====
